---- MODULE Spec2Model ----
(***************************************************************************)
(* Model of ch-backup: the backup metadata store                           *)
(* (ch_backup/backup/metadata.py) and the table restore logic              *)
(* (ch_backup/logic/table.py).                                             *)
(***************************************************************************)
EXTENDS Integers, Sequences, FiniteSets, TLC

(***************************************************************************)
(* Bounds and input sets.                                                  *)
(***************************************************************************)
\* largest size of a part handed to the metadata store
MaxSize == 2

\* Python's None
None == "<None>"

DbNames == {"db1", "db2"}
TableNames == {"t1"}
PartNames == {1, 2}
Sizes == 1..MaxSize
Links == {None, "backups/b0"}

\* the tables known to the model, by number; a number stands for (database, name)
Engines == <<"MergeTree", "Distributed", "ReplicatedMergeTree", "MaterializedView", "Log">>
Catalog == DOMAIN Engines

\* most tables handed to _restore_tables in one call
MaxTables == 3

\* number of tables in the dependency scenario of the submission loop
MaxDepTables == 3

VARIABLES
    backup_meta, \* the BackupMetadata object being built: [_databases, size, real_size, _state]
    loaded,      \* what load_json(dump_json(light)) of backup_meta last returned,
                 \* not valid once backup_meta changed since
    raised,      \* the exception the last metadata call raised, None if it returned
    document,    \* the document last handed to BackupMetadata.load, if load was the last call
    prev_state   \* the state the backup had before the last assignment accepted, where
                 \* the assignments are followed (SpecState)

metaVars == <<backup_meta, loaded, raised, document, prev_state>>

VARIABLES
    pc,             \* where the restore run stands
    args,           \* the arguments of the call: keep_going, clean_zookeeper
    env,            \* how ClickHouse answers restore_table
    tables,         \* the tables handed to _restore_tables, in input order
    unprocessed,    \* _restore_table_objects: the deque of pending tables
    errors,         \* _restore_table_objects: the tables of the (table, exception) list
    ch_tables,      \* ClickHouse: the tables that exist
    zk_cleaned,     \* ZooKeeper: the tables whose replica metadata was deleted
    first_attempts, \* the tables in the order of their first restore_table call
    failed_tables,  \* what _restore_tables returned
    exc             \* the exception that left the run, None if none

schemaVars ==
    <<pc, args, env, tables, unprocessed, errors, ch_tables, zk_cleaned, first_attempts,
      failed_tables, exc>>

VARIABLES
    run,            \* the number of the restore run, from 1
    journal,        \* the RestoreContext in memory
    journal_file,   \* the RestoreContext as last written by dump_state
    ch_changed,     \* ClickHouse: the tables that exist with another schema than the backup's
    disks_iter,     \* _restore_cloud_storage_data: the disks still to visit
    todo,           \* _restore_data: the tables still to visit, the current one first
    parts_iter,     \* _restore_data: the parts of the current table still to visit
    attach_parts,   \* _restore_data: the list attach_parts
    attach_iter,    \* _restore_data: the parts still to attach
    pending,        \* the exception on its way through a finally clause, None if none
    transfers,      \* the storage pipeline: the downloads enqueued and not finished
    detached,       \* the parts present in a detached directory
    waits,          \* the wait() calls that returned for the current table
    units,          \* the tables begun and disk restarts attempted in this run
    dumps,          \* the dump_state calls of this run
    data_acted,     \* a data-phase call (restore file, restart, copy, download, attach) was made in this run
    attach_log,     \* the attach_part calls made for the current table: <<part, outcome>>
    attach_ok,      \* the parts whose attach_part call returned, in any run
    redone,         \* the parts copied, downloaded or attached after their attach_part had returned
    lost,           \* the parts attached and not restored on file when a run was killed
    phases,         \* the phases of this run in the order their calls were made
    restarted       \* the disks of the restart_disk calls of this run, in order

dataVars ==
    <<run, journal, journal_file, ch_changed, disks_iter, todo, parts_iter, attach_parts,
      attach_iter, pending, transfers, detached, waits, units, dumps, data_acted,
      attach_log, attach_ok, redone, lost, phases, restarted>>

\* the data-phase variables but the record of the phases
dataRest ==
    <<run, journal, journal_file, ch_changed, disks_iter, todo, parts_iter, attach_parts,
      attach_iter, pending, transfers, detached, waits, units, dumps, data_acted,
      attach_log, attach_ok, redone, lost, restarted>>

\* the record of the phases after a call of the phase named
Phase(log, name) == IF log # <<>> /\ log[Len(log)] = name THEN log ELSE Append(log, name)

VARIABLES
    bpc,            \* where the backup of the table stands
    generations,    \* the backups finished so far, oldest first
    bk_config,      \* config['backup']: validate_part_after_upload
    dedup_info,     \* the TableDedupInfo handed to _backup_table_data
    freezed_parts,  \* the frozen parts of the table on all its disks, in the order visited
    fpart_i,        \* the number of frozen parts visited
    table_meta,     \* the TableMetadata being populated
    uploaded_parts, \* _backup_table_data: the list uploaded_parts
    bk_calls,       \* the calls made for the table's parts in this backup, in order
    bk_exc          \* the exception that left _backup_table_data, None if none

backupVars ==
    <<bpc, generations, bk_config, dedup_info, freezed_parts, fpart_i, table_meta,
      uploaded_parts, bk_calls, bk_exc>>

VARIABLES
    cpc,            \* where TableBackup.backup stands
    schema_only,    \* the argument schema_only of TableBackup.backup
    db_iter,        \* backup: the databases still to visit, the current one first
    tables_iter,    \* _backup: the tables of the database still to visit, the current one first
    persisted,      \* the documents handed to upload_backup_metadata, in order
    capture_log     \* the steps of the backup in order: <<step, database, table>>

captureVars == <<cpc, schema_only, db_iter, tables_iter, persisted, capture_log>>

VARIABLES
    declared_a,     \* what the first schema text declares and how it is spelled
    declared_b,     \* the same of the second schema text
    schema_a,       \* compare_schema: the argument schema_a, a text
    schema_b,       \* compare_schema: the argument schema_b, a text
    compare_result  \* what compare_schema returned, None before the call

compareVars == <<declared_a, declared_b, schema_a, schema_b, compare_result>>

vars == <<metaVars, schemaVars, dataVars, backupVars, captureVars, compareVars>>

(***************************************************************************)
(* Dictionaries are functions on their key set.                            *)
(***************************************************************************)
EmptyDict == [k \in {} |-> None]

DictSet(d, key, v) == [k \in DOMAIN d \cup {key} |-> IF k = key THEN v ELSE d[k]]

DictDel(d, key) == [k \in DOMAIN d \ {key} |-> d[k]]

\* sum of part.size over a set of PartMetadata
RECURSIVE SumSizes(_)
SumSizes(S) ==
    IF S = {} THEN 0
    ELSE LET x == CHOOSE y \in S : TRUE IN x.raw_metadata.size + SumSizes(S \ {x})

(***************************************************************************)
(* BackupState                                                             *)
(***************************************************************************)
BackupState ==
    [CREATED |-> "created", CREATING |-> "creating", DELETING |-> "deleting",
     PARTIALLY_DELETED |-> "partially_deleted", FAILED |-> "failed"]

BackupStateMembers == DOMAIN BackupState

(***************************************************************************)
(* PartMetadata                                                            *)
(***************************************************************************)
PartMetadata(database, table, name, checksum, psize, files, tarball, link, disk_name) ==
    [database |-> database, table |-> table, name |-> name,
     raw_metadata |-> [checksum |-> checksum, size |-> psize, files |-> files,
                       tarball |-> tarball, link |-> link, disk_name |-> disk_name]]

\* `not part.link`: None and the empty string are both falsy
NoLink(part) == part.raw_metadata.link \in {None, ""}

PartMetadata_load(db_name, table_name, part_name, raw) ==
    PartMetadata(db_name, table_name, part_name, raw.checksum, raw.bytes, raw.files,
                 raw.tarball, raw.link, raw.disk_name)

(***************************************************************************)
(* TableMetadata                                                           *)
(***************************************************************************)
TableMetadata(database, name, engine, uuid) ==
    [database |-> database, name |-> name,
     raw_metadata |-> [engine |-> engine, uuid |-> uuid, parts |-> EmptyDict]]

TableMetadata_load(database, name, raw) ==
    [database |-> database, name |-> name,
     raw_metadata |-> [engine |-> raw.engine, uuid |-> raw.uuid, parts |-> raw.parts]]

TableMetadata_get_parts(table) ==
    {PartMetadata_load(table.database, table.name, p, table.raw_metadata.parts[p]) :
        p \in DOMAIN table.raw_metadata.parts}

TableMetadata_add_part_ok(table, part) ==
    /\ part.database = table.database
    /\ part.table = table.name
    /\ part.name \notin DOMAIN table.raw_metadata.parts

\* the raw dictionary a table keeps for a part
RawPart(part) ==
    [checksum |-> part.raw_metadata.checksum, bytes |-> part.raw_metadata.size,
     files |-> part.raw_metadata.files, link |-> part.raw_metadata.link,
     tarball |-> part.raw_metadata.tarball, disk_name |-> part.raw_metadata.disk_name]

TableMetadata_add_part(table, part) ==
    [table EXCEPT !.raw_metadata.parts = DictSet(@, part.name, RawPart(part))]

(***************************************************************************)
(* BackupMetadata                                                          *)
(***************************************************************************)
\* __init__: an empty backup in state CREATING
BackupMetadata_init ==
    [name |-> "20261104T000000", path |-> "backups/b1", version |-> "1.0",
     ch_version |-> "21.8", hostname |-> "host1", time_format |-> "%Y-%m-%d %H:%M:%S %z",
     labels |-> None, schema_only |-> FALSE,
     _databases |-> EmptyDict, size |-> 0, real_size |-> 0, _state |-> "CREATING"]

\* no BackupMetadata object: what a call that raised leaves its caller with
NoBackup == [none |-> TRUE]

Returned(self) == [self |-> self, raised |-> None]

Raised(self, error) == [self |-> self, raised |-> error]

BackupMetadata_get_databases(self) == DOMAIN self._databases

BackupMetadata_get_tables(self, db_name) ==
    {TableMetadata_load(db_name, t, self._databases[db_name].tables[t]) :
        t \in DOMAIN self._databases[db_name].tables}

BackupMetadata_get_parts(self) ==
    UNION {TableMetadata_get_parts(table) :
        table \in UNION {BackupMetadata_get_tables(self, db) :
                            db \in BackupMetadata_get_databases(self)}}

\* add_database that leaves a backup alone unless it is being created or deleted
BackupMetadata_add_database_guarded(self, db_name) ==
    IF self._state \notin {"CREATING", "DELETING"}
    THEN Returned(self)
    ELSE IF db_name \in DOMAIN self._databases
    THEN Raised(self, "AssertionError")
    ELSE Returned([self EXCEPT !._databases = DictSet(@, db_name, [tables |-> EmptyDict])])

BackupMetadata_add_database(self, db_name) ==
    IF db_name \in DOMAIN self._databases
    THEN Raised(self, "AssertionError")
    ELSE Returned([self EXCEPT !._databases = DictSet(@, db_name, [tables |-> EmptyDict])])

\* what a part adds to real_size: its size unless it is a link
RealSizeOf(part) == IF NoLink(part) THEN part.raw_metadata.size ELSE 0

RECURSIVE SumRealSizes(_)
SumRealSizes(S) ==
    IF S = {} THEN 0
    ELSE LET x == CHOOSE y \in S : TRUE IN RealSizeOf(x) + SumRealSizes(S \ {x})

\* add_table with the link test of line 365 left out
BackupMetadata_add_table_nolinktest(self, table) ==
    IF table.database \notin DOMAIN self._databases
    THEN Raised(self, "KeyError")
    ELSE IF table.name \in DOMAIN self._databases[table.database].tables
    THEN Raised(self, "AssertionError")
    ELSE Returned([self EXCEPT
            !._databases[table.database].tables = DictSet(@, table.name, table.raw_metadata),
            !.size = @ + SumSizes(TableMetadata_get_parts(table)),
            !.real_size = @ + SumSizes(TableMetadata_get_parts(table))])

BackupMetadata_add_table(self, table) ==
    IF table.database \notin DOMAIN self._databases
    THEN Raised(self, "KeyError")
    ELSE IF table.name \in DOMAIN self._databases[table.database].tables
    THEN Raised(self, "AssertionError")
    ELSE Returned([self EXCEPT
            !._databases[table.database].tables = DictSet(@, table.name, table.raw_metadata),
            !.size = @ + SumSizes(TableMetadata_get_parts(table)),
            !.real_size = @ + SumRealSizes(TableMetadata_get_parts(table))])

BackupMetadata_has_table(self, db_name, table_name) ==
    /\ db_name \in DOMAIN self._databases
    /\ table_name \in DOMAIN self._databases[db_name].tables

BackupMetadata_get_table(self, db_name, table_name) ==
    TableMetadata_load(db_name, table_name, self._databases[db_name].tables[table_name])

\* get_table hands out the table's own parts dictionary, so the part added to the
\* TableMetadata it returns is added to the tree
BackupMetadata_add_part(self, part) ==
    IF ~BackupMetadata_has_table(self, part.database, part.table)
    THEN Raised(self, "KeyError")
    ELSE LET table == BackupMetadata_get_table(self, part.database, part.table) IN
         IF ~TableMetadata_add_part_ok(table, part)
         THEN Raised(self, "AssertionError")
         ELSE Returned([self EXCEPT
                 !._databases[part.database].tables[part.table].parts =
                     TableMetadata_add_part(table, part).raw_metadata.parts,
                 !.size = @ + part.raw_metadata.size,
                 !.real_size = @ + RealSizeOf(part)])

\* the loop of remove_parts with the counters decremented before the part is deleted
RECURSIVE RemovePartsLoop_countfirst(_, _, _, _)
RemovePartsLoop_countfirst(self, table, parts, i) ==
    IF i > Len(parts) THEN Returned(self)
    ELSE LET part == parts[i]
             counted == [self EXCEPT !.size = @ - part.raw_metadata.size,
                                     !.real_size = @ - RealSizeOf(part)]
         IN  IF part.name \notin DOMAIN self._databases[table.database].tables[table.name].parts
             THEN Raised(counted, "KeyError")
             ELSE RemovePartsLoop_countfirst(
                     [counted EXCEPT
                         !._databases[table.database].tables[table.name].parts =
                             DictDel(@, part.name)],
                     table, parts, i + 1)

\* the loop of remove_parts over the list `parts`, from its element i on
RECURSIVE RemovePartsLoop(_, _, _, _)
RemovePartsLoop(self, table, parts, i) ==
    IF i > Len(parts) THEN Returned(self)
    ELSE LET part == parts[i] IN
         IF part.name \notin DOMAIN self._databases[table.database].tables[table.name].parts
         THEN Raised(self, "KeyError")
         ELSE RemovePartsLoop(
                 [self EXCEPT
                     !._databases[table.database].tables[table.name].parts =
                         DictDel(@, part.name),
                     !.size = @ - part.raw_metadata.size,
                     !.real_size = @ - RealSizeOf(part)],
                 table, parts, i + 1)

BackupMetadata_remove_parts(self, table, parts) ==
    IF ~BackupMetadata_has_table(self, table.database, table.name)
    THEN Raised(self, "KeyError")
    ELSE RemovePartsLoop(self, table, parts, 1)

\* the state setter without its test
BackupMetadata_set_state_unchecked(self, value) == Returned([self EXCEPT !._state = value])

\* the state setter: a value that is no BackupState member is refused
BackupMetadata_set_state(self, value) ==
    IF value \notin BackupStateMembers
    THEN Raised(self, "UnknownBackupStateError")
    ELSE Returned([self EXCEPT !._state = value])

\* dump_json: the document, as json.loads reads it back
BackupMetadata_dump_json(self, light) ==
    [databases |-> IF light THEN EmptyDict ELSE self._databases,
     meta |-> [name |-> self.name, path |-> self.path, version |-> self.version,
               ch_version |-> self.ch_version, hostname |-> self.hostname,
               time_format |-> self.time_format, bytes |-> self.size,
               real_bytes |-> self.real_size, state |-> BackupState[self._state],
               labels |-> self.labels, date_fmt |-> self.time_format,
               schema_only |-> self.schema_only]]

\* BackupState(value): the member with that value
BackupState_of(value) == CHOOSE m \in BackupStateMembers : BackupState[m] = value

LoadRequiredMeta ==
    {"name", "path", "hostname", "time_format", "bytes", "real_bytes", "state",
     "ch_version", "labels", "version"}

\* load with the state string kept as it is
BackupMetadata_load_anystate(data) ==
    IF \/ ~({"meta", "databases"} \subseteq DOMAIN data)
       \/ ~(LoadRequiredMeta \subseteq DOMAIN data.meta)
    THEN Raised(NoBackup, "InvalidBackupStruct")
    ELSE Returned(
            [name |-> data.meta.name, path |-> data.meta.path,
             version |-> data.meta.version, ch_version |-> data.meta.ch_version,
             hostname |-> data.meta.hostname, time_format |-> data.meta.time_format,
             labels |-> data.meta.labels,
             schema_only |-> IF "schema_only" \in DOMAIN data.meta
                             THEN data.meta.schema_only ELSE FALSE,
             _databases |-> data.databases, size |-> data.meta.bytes,
             real_size |-> data.meta.real_bytes,
             _state |-> data.meta.state])

\* load with real_size read from 'bytes'
BackupMetadata_load_wrongkey(data) ==
    IF \/ ~({"meta", "databases"} \subseteq DOMAIN data)
       \/ ~(LoadRequiredMeta \subseteq DOMAIN data.meta)
       \/ ~(\E m \in BackupStateMembers : BackupState[m] = data.meta.state)
    THEN Raised(NoBackup, "InvalidBackupStruct")
    ELSE Returned(
            [name |-> data.meta.name, path |-> data.meta.path,
             version |-> data.meta.version, ch_version |-> data.meta.ch_version,
             hostname |-> data.meta.hostname, time_format |-> data.meta.time_format,
             labels |-> data.meta.labels,
             schema_only |-> IF "schema_only" \in DOMAIN data.meta
                             THEN data.meta.schema_only ELSE FALSE,
             _databases |-> data.databases, size |-> data.meta.bytes,
             real_size |-> data.meta.bytes,
             _state |-> BackupState_of(data.meta.state)])

\* load: KeyError and ValueError become InvalidBackupStruct
BackupMetadata_load(data) ==
    IF \/ ~({"meta", "databases"} \subseteq DOMAIN data)
       \/ ~(LoadRequiredMeta \subseteq DOMAIN data.meta)
       \/ ~(\E m \in BackupStateMembers : BackupState[m] = data.meta.state)
    THEN Raised(NoBackup, "InvalidBackupStruct")
    ELSE Returned(
            [name |-> data.meta.name, path |-> data.meta.path,
             version |-> data.meta.version, ch_version |-> data.meta.ch_version,
             hostname |-> data.meta.hostname, time_format |-> data.meta.time_format,
             labels |-> data.meta.labels,
             schema_only |-> IF "schema_only" \in DOMAIN data.meta
                             THEN data.meta.schema_only ELSE FALSE,
             _databases |-> data.databases, size |-> data.meta.bytes,
             real_size |-> data.meta.real_bytes,
             _state |-> BackupState_of(data.meta.state)])

(***************************************************************************)
(* Inputs of the metadata operations.                                      *)
(***************************************************************************)
\* the parts a caller may hand in: every name, size and link; the checksum, the
\* tarball flag and the disk vary with them
NewPart(db, t, n, s, l) ==
    PartMetadata(db, t, n, IF s = 1 THEN "cafe" ELSE "beef", s, <<"data.bin">>,
                 l # None, l, IF n = 1 THEN "default" ELSE "object_storage")

PartDescs == Sizes \X Links

PartMaps == UNION {[P -> PartDescs] : P \in SUBSET PartNames}

\* a TableMetadata populated part by part, as _backup_table_data does
RECURSIVE PopulatedTable(_, _, _)
PopulatedTable(table, f, names) ==
    IF names = {} THEN table
    ELSE LET n == CHOOSE x \in names : TRUE IN
         PopulatedTable(
            TableMetadata_add_part(table,
                NewPart(table.database, table.name, n, f[n][1], f[n][2])),
            f, names \ {n})

\* lists of up to two parts read back from a table
PartLists(table) ==
    LET ps == TableMetadata_get_parts(table) IN
    {<<>>} \cup {<<a>> : a \in ps} \cup {<<a, b>> : a \in ps, b \in ps}

(***************************************************************************)
(* The metadata store driven by its callers.                               *)
(***************************************************************************)
NotLoaded == [valid |-> FALSE, light |-> FALSE, backup |-> NoBackup]

\* no document: load was not the last call
NoDocument == [none |-> TRUE]

\* the restore variables while only the metadata store is exercised
SchemaIdle ==
    /\ pc = "idle"
    /\ args = [keep_going |-> FALSE, clean_zookeeper |-> FALSE, schema_only |-> FALSE,
               s3_revisions |-> {}]
    /\ env = [free |-> TRUE, bad |-> 0, depends |-> <<>>]
    /\ tables = <<>>
    /\ unprocessed = <<>>
    /\ errors = <<>>
    /\ ch_tables = {}
    /\ zk_cleaned = {}
    /\ first_attempts = <<>>
    /\ failed_tables = {}
    /\ exc = [type |-> None, tables |-> {}]

\* what no data-phase step changes
dataFrame ==
    <<metaVars, backupVars, captureVars, compareVars, args, env, tables, unprocessed, errors, zk_cleaned, first_attempts,
      ch_tables, ch_changed, failed_tables, run, lost>>

\* RestoreContext(config) with no state file
RestoreContext_init == [tables |-> {}, restored |-> {}, failed |-> {}, disks |-> {}]

\* the data-phase variables before a restore run reaches that phase
DataIdle ==
    /\ run = 1
    /\ journal = RestoreContext_init
    /\ journal_file = RestoreContext_init
    /\ ch_changed = {}
    /\ disks_iter = <<>>
    /\ todo = <<>>
    /\ parts_iter = <<>>
    /\ attach_parts = <<>>
    /\ attach_iter = <<>>
    /\ pending = None
    /\ transfers = {}
    /\ detached = {}
    /\ waits = 0
    /\ units = 0
    /\ dumps = 0
    /\ data_acted = FALSE
    /\ attach_log = <<>>
    /\ attach_ok = {}
    /\ redone = {}
    /\ lost = {}
    /\ phases = <<>>
    /\ restarted = <<>>

\* the backup variables while no table is backed up
BackupIdle ==
    /\ bpc = "idle"
    /\ generations = <<>>
    /\ bk_config = [validate_part_after_upload |-> FALSE]
    /\ dedup_info = EmptyDict
    /\ freezed_parts = <<>>
    /\ fpart_i = 0
    /\ table_meta = TableMetadata("db1", "t1", "MergeTree", None)
    /\ uploaded_parts = <<>>
    /\ bk_calls = <<>>
    /\ bk_exc = None

\* the variables of TableBackup.backup while it is not running
CaptureIdle ==
    /\ cpc = "idle"
    /\ schema_only = FALSE
    /\ db_iter = <<>>
    /\ tables_iter = <<>>
    /\ persisted = <<>>
    /\ capture_log = <<>>

\* the variables of compare_schema while it is not called
CompareIdle ==
    /\ declared_a = None
    /\ declared_b = None
    /\ schema_a = <<>>
    /\ schema_b = <<>>
    /\ compare_result = None

\* the metadata variables while a restore is exercised
MetaIdle ==
    /\ backup_meta = BackupMetadata_init
    /\ loaded = NotLoaded
    /\ raised = None
    /\ document = NoDocument
    /\ prev_state = None

MetaInit ==
    /\ SchemaIdle
    /\ DataIdle
    /\ BackupIdle
    /\ CaptureIdle
    /\ CompareIdle
    /\ backup_meta = BackupMetadata_init
    /\ loaded = NotLoaded
    /\ raised = None
    /\ document = NoDocument
    /\ prev_state = None

MetaCall(r) ==
    /\ UNCHANGED <<schemaVars, dataVars, backupVars, captureVars, compareVars>>
    /\ backup_meta' = r.self
    /\ raised' = r.raised
    /\ loaded' = NotLoaded
    /\ document' = NoDocument
    /\ UNCHANGED prev_state

AddDatabase ==
    \E db \in DbNames : MetaCall(BackupMetadata_add_database(backup_meta, db))

AddTable ==
    \E db \in DbNames, t \in TableNames, f \in PartMaps :
        MetaCall(BackupMetadata_add_table(backup_meta,
            PopulatedTable(TableMetadata(db, t, "MergeTree", None), f, DOMAIN f)))

AddPart ==
    \E db \in DbNames, t \in TableNames, n \in PartNames, d \in PartDescs :
        MetaCall(BackupMetadata_add_part(backup_meta, NewPart(db, t, n, d[1], d[2])))

RemoveParts ==
    \E db \in DbNames, t \in TableNames :
        /\ BackupMetadata_has_table(backup_meta, db, t)
        /\ \E parts \in PartLists(BackupMetadata_get_table(backup_meta, db, t)) :
              MetaCall(BackupMetadata_remove_parts(backup_meta,
                          BackupMetadata_get_table(backup_meta, db, t), parts))

SetState ==
    \E v \in BackupStateMembers \cup {"UNKNOWN"} :
        MetaCall(BackupMetadata_set_state(backup_meta, v))

DumpLoad ==
    \E light \in BOOLEAN :
        LET r == BackupMetadata_load(BackupMetadata_dump_json(backup_meta, light)) IN
        /\ loaded' = [valid |-> TRUE, light |-> light, backup |-> r.self]
        /\ raised' = r.raised
        /\ document' = BackupMetadata_dump_json(backup_meta, light)
        /\ UNCHANGED <<backup_meta, prev_state>>
        /\ UNCHANGED <<schemaVars, dataVars, backupVars, captureVars, compareVars>>

\* the keys of the 'meta' dictionary that dump_json writes
DumpedMetaKeys == LoadRequiredMeta \cup {"date_fmt", "schema_only"}

\* state strings no BackupState member has for its value
ForeignStates == {"unknown", "CREATED", ""}

\* the documents got from a dumped one by dropping one key or by putting
\* another string for the state
Damaged(doc) ==
    {DictDel(doc, k) : k \in DOMAIN doc}
        \cup {[doc EXCEPT !.meta = DictDel(@, k)] : k \in DumpedMetaKeys}
        \cup {[doc EXCEPT !.meta.state = v] : v \in ForeignStates}

\* BackupMetadata.load called on a document that is not as dump_json wrote it
LoadDamaged ==
    \E light \in BOOLEAN :
        \E doc \in Damaged(BackupMetadata_dump_json(backup_meta, light)) :
            LET r == BackupMetadata_load(doc) IN
            /\ loaded' = [valid |-> FALSE, light |-> light, backup |-> r.self]
            /\ raised' = r.raised
            /\ document' = doc
            /\ UNCHANGED <<backup_meta, prev_state>>
            /\ UNCHANGED <<schemaVars, dataVars, backupVars, captureVars, compareVars>>

\* load called on documents dumped from any backup without tables, as they are
\* or damaged
LoadNext ==
    \/ AddDatabase
    \/ SetState
    \/ DumpLoad
    \/ LoadDamaged

SpecLoad == MetaInit /\ [][LoadNext]_vars

\* the state setter called with any member or with something else, the state
\* it replaces kept
AssignState ==
    \E v \in BackupStateMembers \cup {"UNKNOWN"} :
        LET r == BackupMetadata_set_state(backup_meta, v) IN
        /\ backup_meta' = r.self
        /\ raised' = r.raised
        /\ loaded' = NotLoaded
        /\ document' = NoDocument
        /\ prev_state' = IF r.raised = None THEN backup_meta._state ELSE prev_state
        /\ UNCHANGED <<schemaVars, dataVars, backupVars, captureVars, compareVars>>

StateNext ==
    \/ AssignState
    \/ AddDatabase

SpecState == MetaInit /\ [][StateNext]_vars

MetaNext ==
    \/ AddDatabase
    \/ AddTable
    \/ AddPart
    \/ RemoveParts
    \/ SetState
    \/ DumpLoad

SpecMeta == MetaInit /\ [][MetaNext]_vars

(***************************************************************************)
(* Properties of the metadata store.                                       *)
(***************************************************************************)
AllParts == BackupMetadata_get_parts(backup_meta)

LinkFreeParts == {p \in AllParts : p.raw_metadata.link = None}

\* C1: after any sequence of add_database, add_table, add_part and remove_parts
\* calls on a metadata that starts empty, size is the sum of the sizes of all
\* parts of the tree and real_size the sum of the sizes of the parts without a
\* link.
C1_SizeIsSumOfParts ==
    /\ backup_meta.size = SumSizes(AllParts)
    /\ backup_meta.real_size = SumSizes(LinkFreeParts)

\* two databases hold three parts between them, linked and not, after a call
\* that returned
C1_Witness ==
    /\ raised = None
    /\ Cardinality(BackupMetadata_get_databases(backup_meta)) = 2
    /\ Cardinality(AllParts) = 3
    /\ LinkFreeParts # {}
    /\ LinkFreeParts # AllParts
    /\ backup_meta.size = SumSizes(AllParts)

TreeOf(b) ==
    [dbs |-> BackupMetadata_get_databases(b),
     tables |-> {<<t.database, t.name>> :
                    t \in UNION {BackupMetadata_get_tables(b, db) :
                                    db \in BackupMetadata_get_databases(b)}},
     parts |-> {[database |-> q.database, table |-> q.table, name |-> q.name,
                 checksum |-> q.raw_metadata.checksum, size |-> q.raw_metadata.size,
                 link |-> q.raw_metadata.link, tarball |-> q.raw_metadata.tarball,
                 disk_name |-> q.raw_metadata.disk_name] :
                    q \in BackupMetadata_get_parts(b)}]

\* C2: dump_json() followed by load yields a BackupMetadata with the same size,
\* real_size, state and the same databases, tables and parts (checksum, size,
\* link, tarball flag and disk name of each part) as the one dumped.
C2_DumpLoadRoundTrip ==
    (loaded.valid /\ ~loaded.light) =>
        /\ raised = None
        /\ loaded.backup.size = backup_meta.size
        /\ loaded.backup.real_size = backup_meta.real_size
        /\ loaded.backup._state = backup_meta._state
        /\ TreeOf(loaded.backup) = TreeOf(backup_meta)

\* a full dump of a tree with linked and unlinked parts, in a state other than
\* the initial one, was loaded back
C2_Witness ==
    /\ loaded.valid
    /\ ~loaded.light
    /\ raised = None
    /\ backup_meta._state = "PARTIALLY_DELETED"
    /\ Cardinality(AllParts) >= 2
    /\ LinkFreeParts # {}
    /\ LinkFreeParts # AllParts
    /\ TreeOf(loaded.backup).parts # {}

(***************************************************************************)
(* Restore: the schema phase (ch_backup/logic/table.py).                   *)
(***************************************************************************)
Range(seq) == {seq[i] : i \in DOMAIN seq}

\* the lists of at most n distinct elements of S
DistinctSeqs(S, n) ==
    {q \in UNION {[1..k -> S] : k \in 0..n} :
        \A i, j \in DOMAIN q : i # j => q[i] # q[j]}

NoExc == [type |-> None, tables |-> {}]

\* the engine predicates of ch_backup/clickhouse/schema.py
is_merge_tree(engine) == engine \in {"MergeTree", "ReplicatedMergeTree"}

is_distributed(engine) == engine = "Distributed"

is_view(engine) == engine \in {"View", "MaterializedView"}

is_replicated(engine) == engine = "ReplicatedMergeTree"

IsMergeTreeTable(t) == is_merge_tree(Engines[t])

IsDistributedTable(t) == ~is_merge_tree(Engines[t]) /\ is_distributed(Engines[t])

IsViewTable(t) ==
    ~is_merge_tree(Engines[t]) /\ ~is_distributed(Engines[t]) /\ is_view(Engines[t])

IsOtherTable(t) ==
    ~is_merge_tree(Engines[t]) /\ ~is_distributed(Engines[t]) /\ ~is_view(Engines[t])

\* the views and distributed tables ahead of the others
SubmissionOrder_dependentsfirst(ts) ==
    SelectSeq(ts, IsViewTable) \o SelectSeq(ts, IsDistributedTable)
        \o SelectSeq(ts, IsMergeTreeTable) \o SelectSeq(ts, IsOtherTable)

\* the last branch taken by every table that is neither distributed nor a view: a
\* merge-tree table is in two of the lists
SubmissionOrder_overlapping(ts) ==
    SelectSeq(ts, IsMergeTreeTable)
        \o SelectSeq(ts, LAMBDA t : ~is_distributed(Engines[t]) /\ ~is_view(Engines[t]))
        \o SelectSeq(ts, IsDistributedTable) \o SelectSeq(ts, IsViewTable)

\* the tables in the order they were handed in
SubmissionOrder_inputorder(ts) == ts

\* _restore_tables: chain(merge_tree_tables, other_tables, distributed_tables, view_tables)
SubmissionOrder(ts) ==
    SelectSeq(ts, IsMergeTreeTable) \o SelectSeq(ts, IsOtherTable)
        \o SelectSeq(ts, IsDistributedTable) \o SelectSeq(ts, IsViewTable)

\* _restore_tables up to its call of _restore_table_objects
RestoreTables ==
    /\ pc = "restore_tables"
    /\ zk_cleaned' = IF args.clean_zookeeper
                      THEN zk_cleaned \cup {t \in Range(tables) :
                                IsMergeTreeTable(t) /\ is_replicated(Engines[t])}
                      ELSE zk_cleaned
    /\ unprocessed' = SubmissionOrder(tables)
    /\ errors' = <<>>
    /\ pc' = IF SubmissionOrder(tables) = <<>>
             THEN "restore_table_objects_end" ELSE "restore_table_objects"
    /\ phases' = IF args.clean_zookeeper THEN Phase(phases, "cleanup") ELSE phases
    /\ UNCHANGED <<args, env, tables, ch_tables, first_attempts, failed_tables, exc>>
    /\ UNCHANGED <<metaVars, dataRest, backupVars, captureVars, compareVars>>

\* the answer of ch_ctl.restore_table for table t: any, or in the dependency
\* scenario success exactly when t is not the failing table and the tables it
\* depends on exist
Answers(t) ==
    IF env.free THEN BOOLEAN
    ELSE {t # env.bad /\ env.depends[t] \subseteq ch_tables}

\* the error list is kept on a success
ErrorsAfterSuccess_kept(errs) == errs

\* line 363: errors.clear()
ErrorsAfterSuccess(errs) == <<>>

\* the loop gives up at the first failure
StopRule_firsterror(errs, queue) == errs # <<>>

\* the loop gives up one failure early
StopRule_atleast(errs, queue) == Len(errs) >= Len(queue)

\* line 358: the loop gives up
StopRule(errs, queue) == Len(errs) > Len(queue)

\* a table is counted once however often it failed
RecordError_distinct(errs, table) ==
    IF table \in Range(errs) THEN errs ELSE Append(errs, table)

\* line 356: errors.append((table, e))
RecordError(errs, table) == Append(errs, table)

\* the failed table put back before the pending ones
Requeue_front(queue, table) == <<table>> \o queue

\* line 357: unprocessed.append(table)
Requeue(queue, table) == Append(queue, table)

\* one iteration of the while loop of _restore_table_objects
RestoreTableObjectsIter ==
    /\ pc = "restore_table_objects"
    /\ unprocessed # <<>>
    /\ LET table == Head(unprocessed) IN
       \E ok \in Answers(table) :
          /\ first_attempts' = IF table \in Range(first_attempts) THEN first_attempts
                               ELSE Append(first_attempts, table)
          /\ IF ok
             THEN /\ ch_tables' = ch_tables \cup {table}
                  /\ errors' = ErrorsAfterSuccess(errors)
                  /\ unprocessed' = Tail(unprocessed)
                  /\ pc' = IF Tail(unprocessed) = <<>>
                           THEN "restore_table_objects_end" ELSE "restore_table_objects"
             ELSE /\ ch_tables' = ch_tables
                  /\ errors' = RecordError(errors, table)
                  /\ unprocessed' = Requeue(Tail(unprocessed), table)
                  /\ pc' = IF StopRule(errors', unprocessed')
                           THEN "restore_table_objects_end" ELSE "restore_table_objects"
    /\ phases' = Phase(phases, "schema")
    /\ UNCHANGED <<args, env, tables, zk_cleaned, failed_tables, exc>>
    /\ UNCHANGED <<metaVars, dataRest, backupVars, captureVars, compareVars>>

\* the failed tables returned whatever keep_going says
RestoreTableObjectsEnd_returns ==
    /\ pc = "restore_table_objects_end"
    /\ failed_tables' = Range(errors)
    /\ exc' = exc
    /\ pc' = "after_restore_tables"
    /\ UNCHANGED <<args, env, tables, unprocessed, errors, ch_tables, zk_cleaned,
                   first_attempts>>
    /\ UNCHANGED <<metaVars, dataVars, backupVars, captureVars, compareVars>>

\* _restore_table_objects after its loop, lines 365-375
RestoreTableObjectsEnd ==
    /\ pc = "restore_table_objects_end"
    /\ IF errors # <<>>
       THEN IF args.keep_going
            THEN /\ failed_tables' = Range(errors)
                 /\ exc' = exc
                 /\ pc' = "after_restore_tables"
            ELSE /\ failed_tables' = failed_tables
                 /\ exc' = [type |-> "ClickhouseBackupError", tables |-> Range(errors)]
                 /\ pc' = "done"
       ELSE /\ failed_tables' = {}
            /\ exc' = exc
            /\ pc' = "after_restore_tables"
    /\ UNCHANGED <<args, env, tables, unprocessed, errors, ch_tables, zk_cleaned,
                   first_attempts>>
    /\ UNCHANGED <<metaVars, dataVars, backupVars, captureVars, compareVars>>

(***************************************************************************)
(* Restore: the backup restored, the journal and the data phase.           *)
(***************************************************************************)
\* most restore runs on one host (a run follows one that was killed or had ended)
MaxRuns == 2

\* the backup restored: backup_meta.get_tables of the databases asked for
BackupTables == <<1, 2, 3>>

\* TableMetadata.get_parts of these tables: part names
PartsOf(t) == IF t = 1 THEN <<1, 2, 3>> ELSE IF t = 3 THEN <<1>> ELSE <<>>

\* part.disk_name
DiskOf(t, p) == <<"default", "cloud", "object_storage">>[p]

\* backup_meta.s3_revisions of the backups restored: the disks it names
RevisionMaps == {{}, {"object_storage"}, {"object_storage", "object_storage_cold"}}

\* backup_meta.cloud_storage.disks
CloudStorageDisks == {"cloud"}

\* RestoreContext (ch_backup/backup/restore_context.py)
RestoreContext_add_table(ctx, t) == [ctx EXCEPT !.tables = @ \cup {t}]

RestoreContext_part_restored(ctx, t, p) == <<t, p>> \in ctx.restored

RestoreContext_add_part(ctx, t, p) == [ctx EXCEPT !.restored = @ \cup {<<t, p>>}]

RestoreContext_add_failed_part(ctx, t, p, e) ==
    [ctx EXCEPT !.failed = {f \in @ : <<f[1], f[2]>> # <<t, p>>} \cup {<<t, p, e>>}]

RestoreContext_disk_restarted(ctx, disk) == disk \in ctx.disks

RestoreContext_add_disk_restarted(ctx, disk) == [ctx EXCEPT !.disks = @ \cup {disk}]

RestoreContext_dump_state(ctx) == ctx

RestoreContext_load_state(file) == file

\* restore, lines 106-109: the merge-tree tables of the backup not reported failed
TablesToRestore_all(tables_meta, failed) == SelectSeq(tables_meta, IsMergeTreeTable)

TablesToRestore(tables_meta, failed) ==
    LET Wanted(t) == IsMergeTreeTable(t) /\ t \notin failed IN
    SelectSeq(tables_meta, Wanted)

\* a preprocessing that drops no table
Preprocess_nodrop ==
    /\ pc = "restore"
    /\ tables' = LET Missing(t) == t \notin ch_tables IN SelectSeq(BackupTables, Missing)
    /\ UNCHANGED ch_changed
    /\ pc' = "restore_tables"
    /\ UNCHANGED <<args, env, unprocessed, errors, ch_tables, zk_cleaned, first_attempts,
                   failed_tables, exc>>
    /\ UNCHANGED <<run, journal, journal_file, disks_iter, todo, parts_iter, attach_parts,
                   attach_iter, pending, transfers, detached, waits, units, dumps,
                   data_acted, attach_log, attach_ok, redone, lost, phases, restarted>>
    /\ UNCHANGED <<metaVars, backupVars, captureVars, compareVars>>

\* _preprocess_tables_to_restore: the tables that exist with an equal schema are
\* left out, those that exist with another one are dropped
Preprocess ==
    /\ pc = "restore"
    /\ tables' = LET Missing(t) == t \notin ch_tables IN SelectSeq(BackupTables, Missing)
    /\ ch_changed' = ch_changed \ Range(BackupTables)
    /\ pc' = "restore_tables"
    /\ UNCHANGED <<args, env, unprocessed, errors, ch_tables, zk_cleaned, first_attempts,
                   failed_tables, exc>>
    /\ UNCHANGED <<run, journal, journal_file, disks_iter, todo, parts_iter, attach_parts,
                   attach_iter, pending, transfers, detached, waits, units, dumps,
                   data_acted, attach_log, attach_ok, redone, lost, phases, restarted>>
    /\ UNCHANGED <<metaVars, backupVars, captureVars, compareVars>>

SeqOf(S) == CHOOSE q \in [1..Cardinality(S) -> S] : Range(q) = S

\* the data of the tables restored without a look at the revisions
DataEntry_skipdisks(revisions) == "restore_data"

\* restore, lines 100-104: if backup_meta.has_s3_data()
DataEntry(revisions) ==
    IF revisions # {} THEN "restore_cloud_storage_data" ELSE "restore_data"

\* restore, lines 98-113, after _restore_tables returned
AfterRestoreTables ==
    /\ pc = "after_restore_tables"
    /\ IF args.schema_only
       THEN /\ pc' = "done"
            /\ UNCHANGED <<disks_iter, todo>>
       ELSE /\ todo' = TablesToRestore(BackupTables, failed_tables)
            /\ disks_iter' = SeqOf(args.s3_revisions)
            /\ pc' = DataEntry(args.s3_revisions)
    /\ UNCHANGED <<journal, journal_file, parts_iter, attach_parts, attach_iter, pending,
                   transfers, detached, waits, units, dumps, data_acted, attach_log,
                   attach_ok, redone,
                   exc>>
    /\ UNCHANGED <<phases, restarted>>
    /\ UNCHANGED dataFrame

\* the exception leaving the run from a data-phase call
DataExc(site) == [type |-> site, tables |-> {}]

\* where _restore_cloud_storage_data goes after a disk
AfterDisk(rest) == IF rest = <<>> THEN "restore_data" ELSE "restore_cloud_storage_data"

\* no disk is taken for one restarted
AlreadyRestarted_never(ctx, disk) == FALSE

\* lines 281-283
AlreadyRestarted(ctx, disk) == RestoreContext_disk_restarted(ctx, disk)

\* _restore_cloud_storage_data, lines 275-286: one disk up to its finally clause
RestoreCloudStorageDisk ==
    /\ pc = "restore_cloud_storage_data"
    /\ disks_iter # <<>>
    /\ data_acted' = TRUE
    /\ LET disk_name == Head(disks_iter) IN
       \/ \* create_s3_disk_restore_file raises
          /\ exc' = DataExc("create_s3_disk_restore_file")
          /\ pc' = "done"
          /\ UNCHANGED <<journal, disks_iter, pending, units, restarted>>
       \/ \* the journal holds the disk as restarted
          /\ AlreadyRestarted(journal, disk_name)
          /\ disks_iter' = Tail(disks_iter)
          /\ pc' = AfterDisk(Tail(disks_iter))
          /\ UNCHANGED <<journal, pending, units, exc, restarted>>
       \/ \* restart_disk returns or raises
          /\ ~AlreadyRestarted(journal, disk_name)
          /\ units' = units + 1
          /\ restarted' = Append(restarted, disk_name)
          /\ pc' = "restart_finally"
          /\ \/ /\ journal' = RestoreContext_add_disk_restarted(journal, disk_name)
                /\ pending' = None
             \/ /\ journal' = journal
                /\ pending' = "restart_disk"
          /\ UNCHANGED <<disks_iter, exc>>
    /\ UNCHANGED <<journal_file, todo, parts_iter, attach_parts, attach_iter, transfers,
                   detached, waits, dumps, attach_log,
                   attach_ok, redone>>
    /\ phases' = Phase(phases, "disks")
    /\ UNCHANGED dataFrame

\* what a finally clause leaves on file
FinallyDump_nothing(ctx, file) == file

\* lines 288 and 329: self._restore_context.dump_state()
FinallyDump(ctx, file) == RestoreContext_dump_state(ctx)

\* _restore_cloud_storage_data, lines 287-288
RestartFinally ==
    /\ pc = "restart_finally"
    /\ journal_file' = FinallyDump(journal, journal_file)
    /\ dumps' = dumps + 1
    /\ pending' = None
    /\ IF pending # None
       THEN /\ exc' = DataExc(pending)
            /\ pc' = "done"
            /\ UNCHANGED disks_iter
       ELSE /\ disks_iter' = Tail(disks_iter)
            /\ pc' = AfterDisk(Tail(disks_iter))
            /\ UNCHANGED exc
    /\ UNCHANGED <<journal, todo, parts_iter, attach_parts, attach_iter, transfers,
                   detached, waits, units, data_acted, attach_log,
                   attach_ok, redone>>
    /\ UNCHANGED <<phases, restarted>>
    /\ UNCHANGED dataFrame

\* _restore_data, lines 292-301: the next table, up to its loop over the parts
RestoreDataTable ==
    /\ pc = "restore_data"
    /\ IF todo = <<>>
       THEN /\ pc' = "done"
            /\ UNCHANGED <<journal, parts_iter, attach_parts, pending, waits, units,
                           attach_log>>
       ELSE /\ journal' = RestoreContext_add_table(journal, Head(todo))
            /\ units' = units + 1
            /\ attach_parts' = <<>>
            /\ attach_log' = <<>>
            /\ waits' = 0
            /\ \/ \* get_table returns the table
                  /\ parts_iter' = PartsOf(Head(todo))
                  /\ pending' = None
                  /\ pc' = IF PartsOf(Head(todo)) = <<>> THEN "wait" ELSE "parts"
               \/ \* get_table raises or returns None
                  /\ pending' = "get_table"
                  /\ pc' = "finally"
                  /\ UNCHANGED parts_iter
    /\ UNCHANGED <<journal_file, disks_iter, todo, attach_iter, transfers, detached,
                   dumps, data_acted, attach_ok, redone, exc>>
    /\ UNCHANGED <<phases, restarted>>
    /\ UNCHANGED dataFrame

\* line 307: neither copied nor downloaded
OnRevisionDisk(t, p) == DiskOf(t, p) \in args.s3_revisions

\* every part is taken for one still to restore
Skip_never(ctx, t, p) == FALSE

\* lines 303-305
Skip(ctx, t, p) == RestoreContext_part_restored(ctx, t, p)

\* _restore_data, lines 302-314: one part of the loop over table_meta.get_parts()
RestoreDataPart ==
    /\ pc = "parts"
    /\ parts_iter # <<>>
    /\ LET t == Head(todo)
           p == Head(parts_iter)
           next == IF Tail(parts_iter) = <<>> THEN "wait" ELSE "parts"
       IN
       IF Skip(journal, t, p)
       THEN /\ parts_iter' = Tail(parts_iter)
            /\ pc' = next
            /\ UNCHANGED <<attach_parts, pending, transfers, detached, data_acted, redone>>
       ELSE IF OnRevisionDisk(t, p)
       THEN /\ parts_iter' = Tail(parts_iter)
            /\ attach_parts' = Append(attach_parts, p)
            /\ pc' = next
            /\ UNCHANGED <<pending, transfers, detached, data_acted, redone>>
       ELSE /\ data_acted' = TRUE
            /\ redone' = IF <<t, p>> \in attach_ok THEN redone \cup {<<t, p>>} ELSE redone
            /\ \/ \* copy_part or download_data_part returns
                  /\ IF DiskOf(t, p) \in CloudStorageDisks
                     THEN /\ detached' = detached \cup {<<t, p>>}
                          /\ UNCHANGED transfers
                     ELSE /\ transfers' = transfers \cup {<<t, p>>}
                          /\ UNCHANGED detached
                  /\ parts_iter' = Tail(parts_iter)
                  /\ attach_parts' = Append(attach_parts, p)
                  /\ pc' = next
                  /\ UNCHANGED pending
               \/ \* it raises
                  /\ pending' = IF DiskOf(t, p) \in CloudStorageDisks
                                THEN "copy_part" ELSE "download_data_part"
                  /\ pc' = "finally"
                  /\ UNCHANGED <<parts_iter, attach_parts, transfers, detached>>
    /\ UNCHANGED <<journal, journal_file, disks_iter, todo, attach_iter, waits, units,
                   dumps, attach_log,
                   attach_ok, exc>>
    /\ phases' = IF Skip(journal, Head(todo), Head(parts_iter))
                     \/ OnRevisionDisk(Head(todo), Head(parts_iter))
                  THEN phases ELSE Phase(phases, "copy")
    /\ UNCHANGED restarted
    /\ UNCHANGED dataFrame

\* the storage pipeline finishes a download
TransferDone ==
    /\ pc \notin {"done", "idle"}
    /\ \E x \in transfers :
          /\ transfers' = transfers \ {x}
          /\ detached' = detached \cup {x}
    /\ UNCHANGED <<pc, journal, journal_file, disks_iter, todo, parts_iter, attach_parts,
                   attach_iter, pending, waits, units, dumps, data_acted, attach_log,
                   attach_ok, redone,
                   exc>>
    /\ UNCHANGED <<phases, restarted>>
    /\ UNCHANGED dataFrame

\* wait() returning with downloads still running
Wait_nojoin ==
    /\ pc = "wait"
    /\ waits' = waits + 1
    /\ pc' = "chown"
    /\ UNCHANGED <<pending, transfers>>
    /\ UNCHANGED <<journal, journal_file, disks_iter, todo, parts_iter, attach_parts,
                   attach_iter, detached, units, dumps, data_acted, attach_log,
                   attach_ok, redone, exc>>
    /\ UNCHANGED <<phases, restarted>>
    /\ UNCHANGED dataFrame

\* _restore_data, line 316: self._backup_layout.wait() returns once every download
\* enqueued has finished, or raises
Wait ==
    /\ pc = "wait"
    /\ \/ /\ transfers = {}
          /\ waits' = waits + 1
          /\ pc' = "chown"
          /\ UNCHANGED <<pending, transfers>>
       \/ /\ pending' = "wait"
          /\ transfers' = {}
          /\ pc' = "finally"
          /\ UNCHANGED waits
    /\ UNCHANGED <<journal, journal_file, disks_iter, todo, parts_iter, attach_parts,
                   attach_iter, detached, units, dumps, data_acted, attach_log,
                   attach_ok, redone, exc>>
    /\ UNCHANGED <<phases, restarted>>
    /\ UNCHANGED dataFrame

\* _restore_data, line 318: chown_detached_table_parts
Chown ==
    /\ pc = "chown"
    /\ \/ /\ attach_iter' = attach_parts
          /\ pc' = IF attach_parts = <<>> THEN "finally" ELSE "attach"
          /\ UNCHANGED pending
       \/ /\ pending' = "chown_detached_table_parts"
          /\ pc' = "finally"
          /\ UNCHANGED attach_iter
    /\ UNCHANGED <<journal, journal_file, disks_iter, todo, parts_iter, attach_parts,
                   transfers, detached, waits, units, dumps, data_acted, attach_log,
                   attach_ok, redone,
                   exc>>
    /\ UNCHANGED <<phases, restarted>>
    /\ UNCHANGED dataFrame

\* what attach_part may do: return, raise an Exception, or be interrupted
AttachOutcomes == {"ok", "Exception", "KeyboardInterrupt"}

\* an Exception of attach_part leaving the loop
AttachStep_uncaught(t, p, outcome) ==
    /\ attach_ok' = IF outcome = "ok" THEN attach_ok \cup {<<t, p>>} ELSE attach_ok
    /\ IF outcome = "ok"
       THEN /\ journal' = RestoreContext_add_part(journal, t, p)
            /\ attach_iter' = Tail(attach_iter)
            /\ pc' = IF Tail(attach_iter) = <<>> THEN "finally" ELSE "attach"
            /\ UNCHANGED pending
       ELSE /\ pending' = outcome
            /\ pc' = "finally"
            /\ UNCHANGED <<journal, attach_iter>>

\* lines 320-327: attach one part and record what came of it
AttachStep(t, p, outcome) ==
    /\ attach_ok' = IF outcome = "ok" THEN attach_ok \cup {<<t, p>>} ELSE attach_ok
    /\ CASE outcome = "ok" ->
              /\ journal' = RestoreContext_add_part(journal, t, p)
              /\ attach_iter' = Tail(attach_iter)
              /\ pc' = IF Tail(attach_iter) = <<>> THEN "finally" ELSE "attach"
              /\ UNCHANGED pending
         [] outcome = "Exception" ->
              /\ journal' = RestoreContext_add_failed_part(journal, t, p, outcome)
              /\ attach_iter' = Tail(attach_iter)
              /\ pc' = IF Tail(attach_iter) = <<>> THEN "finally" ELSE "attach"
              /\ UNCHANGED pending
         [] OTHER ->
              /\ pending' = outcome
              /\ pc' = "finally"
              /\ UNCHANGED <<journal, attach_iter>>

\* _restore_data, lines 319-327: one part of the loop over attach_parts
Attach ==
    /\ pc = "attach"
    /\ attach_iter # <<>>
    /\ data_acted' = TRUE
    /\ redone' = IF <<Head(todo), Head(attach_iter)>> \in attach_ok
                 THEN redone \cup {<<Head(todo), Head(attach_iter)>>} ELSE redone
    /\ \E outcome \in AttachOutcomes :
          /\ attach_log' = Append(attach_log, <<Head(attach_iter), outcome>>)
          /\ AttachStep(Head(todo), Head(attach_iter), outcome)
    /\ UNCHANGED <<journal_file, disks_iter, todo, parts_iter, attach_parts, transfers,
                   detached, waits, units, dumps, exc>>
    /\ phases' = Phase(phases, "attach")
    /\ UNCHANGED restarted
    /\ UNCHANGED dataFrame

\* the table's exception swallowed after the journal is written
Finally_swallow ==
    /\ pc = "finally"
    /\ journal_file' = FinallyDump(journal, journal_file)
    /\ dumps' = dumps + 1
    /\ pending' = None
    /\ todo' = Tail(todo)
    /\ pc' = "restore_data"
    /\ UNCHANGED exc
    /\ UNCHANGED <<journal, disks_iter, parts_iter, attach_parts, attach_iter, transfers,
                   detached, waits, units, data_acted, attach_log,
                   attach_ok, redone>>
    /\ UNCHANGED <<phases, restarted>>
    /\ UNCHANGED dataFrame

\* _restore_data, lines 328-329, and what follows the try statement
Finally ==
    /\ pc = "finally"
    /\ journal_file' = FinallyDump(journal, journal_file)
    /\ dumps' = dumps + 1
    /\ pending' = None
    /\ IF pending # None
       THEN /\ exc' = DataExc(pending)
            /\ pc' = "done"
            /\ UNCHANGED todo
       ELSE /\ todo' = Tail(todo)
            /\ pc' = "restore_data"
            /\ UNCHANGED exc
    /\ UNCHANGED <<journal, disks_iter, parts_iter, attach_parts, attach_iter, transfers,
                   detached, waits, units, data_acted, attach_log,
                   attach_ok, redone>>
    /\ UNCHANGED <<phases, restarted>>
    /\ UNCHANGED dataFrame

\* a new run of restore on the host: after the run ended, or after the process
\* was killed where it stood; the journal is read from its file
NewRun ==
    /\ pc # "idle"
    /\ run < MaxRuns
    /\ run' = run + 1
    /\ lost' = IF pc = "done" THEN lost ELSE lost \cup (attach_ok \ journal_file.restored)
    /\ attach_log' = <<>>
    /\ journal' = RestoreContext_load_state(journal_file)
    /\ pc' = "restore"
    /\ tables' = <<>>
    /\ unprocessed' = <<>>
    /\ errors' = <<>>
    /\ first_attempts' = <<>>
    /\ failed_tables' = {}
    /\ exc' = NoExc
    /\ disks_iter' = <<>>
    /\ todo' = <<>>
    /\ parts_iter' = <<>>
    /\ attach_parts' = <<>>
    /\ attach_iter' = <<>>
    /\ pending' = None
    /\ transfers' = {}
    /\ waits' = 0
    /\ units' = 0
    /\ dumps' = 0
    /\ data_acted' = FALSE
    /\ phases' = <<>>
    /\ restarted' = <<>>
    /\ UNCHANGED <<args, env, ch_tables, zk_cleaned, journal_file, ch_changed, detached,
                   attach_ok, redone>>
    /\ UNCHANGED <<metaVars, backupVars, captureVars, compareVars>>

\* restore called on a host where any of the backup's tables may exist, with the
\* backup's schema or another
RestoreInit ==
    /\ MetaIdle
    /\ BackupIdle
    /\ CaptureIdle
    /\ CompareIdle
    /\ pc = "restore"
    /\ args \in [keep_going : BOOLEAN, clean_zookeeper : BOOLEAN, schema_only : BOOLEAN,
                  s3_revisions : RevisionMaps]
    /\ env = [free |-> TRUE, bad |-> 0, depends |-> <<>>]
    /\ tables = <<>>
    /\ unprocessed = <<>>
    /\ errors = <<>>
    /\ ch_tables \in SUBSET Range(BackupTables)
    /\ ch_changed \in SUBSET (Range(BackupTables) \ ch_tables)
    /\ zk_cleaned = {}
    /\ first_attempts = <<>>
    /\ failed_tables = {}
    /\ exc = NoExc
    /\ run = 1
    /\ journal = RestoreContext_init
    /\ journal_file = RestoreContext_init
    /\ disks_iter = <<>>
    /\ todo = <<>>
    /\ parts_iter = <<>>
    /\ attach_parts = <<>>
    /\ attach_iter = <<>>
    /\ pending = None
    /\ transfers = {}
    /\ detached = {}
    /\ waits = 0
    /\ units = 0
    /\ dumps = 0
    /\ data_acted = FALSE
    /\ attach_log = <<>>
    /\ attach_ok = {}
    /\ redone = {}
    /\ lost = {}
    /\ phases = <<>>
    /\ restarted = <<>>

RestoreNext ==
    \/ Preprocess
    \/ RestoreTables
    \/ RestoreTableObjectsIter
    \/ RestoreTableObjectsEnd
    \/ AfterRestoreTables
    \/ RestoreCloudStorageDisk
    \/ RestartFinally
    \/ RestoreDataTable
    \/ RestoreDataPart
    \/ TransferDone
    \/ Wait
    \/ Chown
    \/ Attach
    \/ Finally
    \/ NewRun

SpecRestore == RestoreInit /\ [][RestoreNext]_vars

(***************************************************************************)
(* The schema phase alone.                                                 *)
(***************************************************************************)
\* _restore_tables called on any list of at most MaxTables distinct tables
SchemaInit ==
    /\ MetaIdle
    /\ BackupIdle
    /\ CaptureIdle
    /\ CompareIdle
    /\ DataIdle
    /\ pc = "restore_tables"
    /\ args \in [keep_going : BOOLEAN, clean_zookeeper : BOOLEAN, schema_only : {FALSE},
                  s3_revisions : {{}}]
    /\ env = [free |-> TRUE, bad |-> 0, depends |-> <<>>]
    /\ tables \in DistinctSeqs(Catalog, MaxTables)
    /\ unprocessed = <<>>
    /\ errors = <<>>
    /\ ch_tables = {}
    /\ zk_cleaned = {}
    /\ first_attempts = <<>>
    /\ failed_tables = {}
    /\ exc = NoExc

SchemaNext ==
    \/ RestoreTables
    \/ RestoreTableObjectsIter
    \/ RestoreTableObjectsEnd

SpecSchema == SchemaInit /\ [][SchemaNext]_vars

\* the schema phase running on: nothing suspends the loop
SpecSchemaLive == SchemaInit /\ [][SchemaNext]_vars /\ WF_vars(SchemaNext)

\* the dependency scenarios over the tables 1..n: one table that always fails, the
\* others depending on lower-numbered ones that do not
DepEnvs(n) ==
    {e \in [free : {FALSE}, bad : 1..n, depends : [1..n -> SUBSET (1..n)]] :
        \A t \in 1..n :
            e.depends[t] \subseteq
                IF t = e.bad THEN {} ELSE {u \in 1..n : u < t /\ u # e.bad}}

OrdersOf(n) == {q \in DistinctSeqs(1..n, n) : Len(q) = n}

\* _restore_table_objects called on the tables 1..n in any order
DepsInit ==
    /\ MetaIdle
    /\ BackupIdle
    /\ CaptureIdle
    /\ CompareIdle
    /\ DataIdle
    /\ pc = "restore_table_objects"
    /\ args \in [keep_going : BOOLEAN, clean_zookeeper : {FALSE}, schema_only : {FALSE},
                  s3_revisions : {{}}]
    /\ \E n \in 1..MaxDepTables :
          /\ env \in DepEnvs(n)
          /\ tables \in OrdersOf(n)
    /\ unprocessed = tables
    /\ errors = <<>>
    /\ ch_tables = {}
    /\ zk_cleaned = {}
    /\ first_attempts = <<>>
    /\ failed_tables = {}
    /\ exc = NoExc

DepsNext ==
    \/ RestoreTableObjectsIter
    \/ RestoreTableObjectsEnd

\* the loop runs on: nothing suspends it
SpecDeps == DepsInit /\ [][DepsNext]_vars /\ WF_vars(DepsNext)

LoopReturned == pc \in {"after_restore_tables", "done"}

\* the failed set as reported: returned, or named in the error raised
ReportedFailed == IF exc.type = None THEN failed_tables ELSE exc.tables

\* C3: with exactly one table that always fails and every other one succeeding
\* once the tables it depends on exist, the submission loop terminates, every
\* other table ends up created, and the failed set reported (returned under
\* keep_going, named in the error raised otherwise) is exactly that one table,
\* whatever the input order.
C3_OneFailingTableReported ==
    /\ <>LoopReturned
    /\ [](LoopReturned =>
            /\ ReportedFailed = {env.bad}
            /\ ch_tables = Range(tables) \ {env.bad}
            /\ (exc.type = None) = args.keep_going
            /\ (exc.type # None) => exc.type = "ClickhouseBackupError")

\* the loop returned after a table that first failed for a missing dependency was
\* created on a later attempt
C3_Witness ==
    /\ LoopReturned
    /\ ~env.free
    /\ Len(tables) = 3
    /\ first_attempts[1] # env.bad
    /\ env.depends[first_attempts[1]] # {}
    /\ first_attempts[1] \in ch_tables
    /\ ReportedFailed = {env.bad}

RankOf(t) ==
    IF IsMergeTreeTable(t) THEN 1
    ELSE IF IsDistributedTable(t) THEN 3
    ELSE IF IsViewTable(t) THEN 4 ELSE 2

\* C4: whatever the input order of _restore_tables, the first creation attempt
\* of every merge-tree table precedes that of every distributed table, which
\* precedes that of every view table.
C4_FirstAttemptsByClass ==
    /\ \A i, j \in DOMAIN first_attempts :
          (i < j) =>
            /\ ~(IsDistributedTable(first_attempts[i]) /\ IsMergeTreeTable(first_attempts[j]))
            /\ ~(IsViewTable(first_attempts[i]) /\ IsMergeTreeTable(first_attempts[j]))
            /\ ~(IsViewTable(first_attempts[i]) /\ IsDistributedTable(first_attempts[j]))
    /\ \A t \in Range(first_attempts), u \in Range(tables) \ Range(first_attempts) :
          /\ IsDistributedTable(t) => ~IsMergeTreeTable(u)
          /\ IsViewTable(t) => ~(IsMergeTreeTable(u) \/ IsDistributedTable(u))
    /\ LoopReturned => Range(first_attempts) = Range(tables)

\* a view, a distributed table and a merge-tree table were handed in in that
\* order and all three were attempted
C4_Witness ==
    /\ LoopReturned
    /\ Len(tables) = 3
    /\ IsViewTable(tables[1])
    /\ IsDistributedTable(tables[2])
    /\ IsMergeTreeTable(tables[3])
    /\ Len(first_attempts) = 3

(***************************************************************************)
(* Properties of the data phase.                                           *)
(***************************************************************************)
\* the parts of table t that the journal on file does not hold as restored
NotRestoredOnFile(t) ==
    LET Missing(p) == <<t, p>> \notin journal_file.restored IN SelectSeq(PartsOf(t), Missing)

\* the parts of the attach_part calls made for the current table, in order
Attempted == [i \in DOMAIN attach_log |-> attach_log[i][1]]

\* C5 as stated: a part whose attach_part returned is never copied, downloaded or
\* attached again, wherever the run was interrupted
C5_AttachedNeverRedone == redone = {}

\* C5: a part that the journal on file holds as restored is never copied, downloaded
\* or attached again: the parts handled twice were attached in a run killed before
\* the table's dump_state, and the parts a run collects to attach for a table are
\* exactly those the journal on file does not hold as restored
C5_RestoredOnFileNeverRedone ==
    /\ redone \subseteq lost
    /\ pc \in {"wait", "chown", "attach"} => attach_parts = NotRestoredOnFile(Head(todo))

\* a second run, after one that ended with part 1 of the 3 parts of table 1
\* restored, has attempted parts 2 and 3 and nothing else
C5_Witness ==
    /\ run = 2
    /\ pc = "finally"
    /\ Head(todo) = 1
    /\ Attempted = <<2, 3>>
    /\ <<1, 1>> \in attach_ok
    /\ redone = {}
    /\ lost = {}

\* C6: when a part of a table is attached, every part of the table has been
\* through the loop that enqueues the copies and downloads, wait has returned
\* exactly once for the table, no download is in flight and every part to
\* attach that needed a copy or a download is in place
C6_TransfersJoinedBeforeAttach ==
    pc = "attach" =>
        /\ parts_iter = <<>>
        /\ waits = 1
        /\ transfers = {}
        /\ \A i \in DOMAIN attach_parts :
              ~OnRevisionDisk(Head(todo), attach_parts[i])
                  => <<Head(todo), attach_parts[i]>> \in detached

\* the first attach of table 1 is due, its three parts copied or downloaded
C6_Witness ==
    /\ pc = "attach"
    /\ Head(todo) = 1
    /\ attach_iter = <<1, 2, 3>>
    /\ args.s3_revisions = {}
    /\ {<<1, 1>>, <<1, 2>>, <<1, 3>>} \subseteq detached

\* C7: an Exception of attach_part is recorded in the journal for the part with
\* the error and a part attached is recorded as restored; the table's finally
\* clause is reached without an exception only after every part to attach was
\* attempted; an Exception of attach_part never leaves the table or the run,
\* and a run that ends without an exception has gone through every table
C7_AttachFailureRecorded ==
    /\ pc \in {"attach", "finally"} =>
          \A i \in DOMAIN attach_log :
             LET p == attach_log[i][1]
                 outcome == attach_log[i][2]
             IN  /\ outcome = "Exception" => <<Head(todo), p, outcome>> \in journal.failed
                 /\ outcome = "ok" => <<Head(todo), p>> \in journal.restored
    /\ (pc = "finally" /\ pending = None) => Attempted = attach_parts
    /\ pending # "Exception"
    /\ exc.type # "Exception"
    /\ (pc = "done" /\ exc = NoExc /\ ~args.schema_only) => todo = <<>>

\* a first run has ended without an exception: attach_part failed for part 2 of
\* table 1, parts 1 and 3 and the part of table 3 are restored
C7_Witness ==
    /\ run = 1
    /\ pc = "done"
    /\ exc = NoExc
    /\ <<1, 2, "Exception">> \in journal_file.failed
    /\ journal_file.restored = {<<1, 1>>, <<1, 3>>, <<3, 1>>}

\* the calls of the data phase made for one table
DataSites ==
    {"get_table", "copy_part", "download_data_part", "wait", "chown_detached_table_parts",
     "Exception"}

\* C8 as stated: no failure of a call made for one table in the data phase ends
\* the run
C8_DataFailureNeverTerminal == exc.type \notin DataSites

\* C8: an Exception of attach_part is only reported; any other exception raised
\* for a table in the data phase leaves the run once the finally clause has
\* written the journal, and the tables after it are not restored in that run
C8_OnlyAttachFailureReported ==
    /\ [](pending # "Exception" /\ exc.type # "Exception")
    /\ [][(pc = "finally" /\ pending # None /\ pc' # "finally" /\ run' = run) =>
            /\ pc' = "done"
            /\ exc'.type = pending
            /\ journal_file' = journal
            /\ todo' = todo]_vars

\* a download raised for table 1: the journal is on file, the run has ended with
\* the exception and table 3 is left
C8_Witness ==
    /\ pc = "done"
    /\ exc.type = "download_data_part"
    /\ todo = <<1, 3>>
    /\ 1 \in journal_file.tables
    /\ journal_file = journal

\* C9: between two tables, between two disks and at the end of the run the journal
\* on file is the journal in memory and dump_state has been called once for every
\* table started and every disk restart attempted; inside a table or a restart
\* exactly the call of the current one is due
C9_JournalPersistedAfterEachUnit ==
    /\ pc \in {"restore_data", "restore_cloud_storage_data", "done"} =>
          dumps = units /\ journal_file = journal
    /\ pc \in {"restart_finally", "parts", "wait", "chown", "attach", "finally"} =>
          dumps + 1 = units

\* the run ended by wait raising in its second table, after one disk restart:
\* three calls of dump_state
C9_Witness ==
    /\ pc = "done"
    /\ exc.type = "wait"
    /\ units = 3
    /\ dumps = 3
    /\ journal_file.disks # {}

\* C10: once the submission loop has ended with errors, under keep_going the
\* failed tables are returned and nothing is raised; otherwise the run has ended
\* with ClickhouseBackupError naming every failed table and no data-phase
\* action was made; with no error left the empty set is returned
C10_LoopEndReportsFailedTables ==
    pc \notin {"idle", "restore", "restore_tables", "restore_table_objects",
               "restore_table_objects_end"} =>
        IF errors # <<>>
        THEN IF args.keep_going
             THEN failed_tables = Range(errors) /\ exc.type # "ClickhouseBackupError"
             ELSE /\ exc = [type |-> "ClickhouseBackupError", tables |-> Range(errors)]
                  /\ pc = "done"
                  /\ ~data_acted
        ELSE failed_tables = {} /\ exc.type # "ClickhouseBackupError"

\* the loop gave up on two tables without keep_going: the run ended there
C10_Witness ==
    /\ pc = "done"
    /\ ~args.keep_going
    /\ exc.type = "ClickhouseBackupError"
    /\ Cardinality(exc.tables) = 2
    /\ ~data_acted

(***************************************************************************)
(* Properties of the submission loop.                                      *)
(***************************************************************************)
\* C11 as stated: the loop goes on while the distinct errors since the last
\* success are at most the pending tables, and has stopped only with none pending
\* or with more distinct errors than pending tables
C11_StopsOnDistinctErrors ==
    /\ pc = "restore_table_objects" =>
          unprocessed # <<>> /\ Cardinality(Range(errors)) <= Len(unprocessed)
    /\ pc = "restore_table_objects_end" =>
          unprocessed = <<>> \/ Cardinality(Range(errors)) > Len(unprocessed)

\* C11: counting one error for every failed attempt since the last success, the
\* loop goes on while tables are pending and the errors are at most the pending
\* tables, it has stopped only with none pending or with more errors than
\* pending tables, and once stopped it makes no further attempt
C11_StopsWhenErrorsExceedPending ==
    /\ [](/\ pc = "restore_table_objects" =>
                unprocessed # <<>> /\ Len(errors) <= Len(unprocessed)
          /\ pc = "restore_table_objects_end" =>
                unprocessed = <<>> \/ Len(errors) > Len(unprocessed))
    /\ [][pc = "restore_table_objects_end" =>
            /\ unprocessed' = unprocessed
            /\ errors' = errors
            /\ ch_tables' = ch_tables
            /\ first_attempts' = first_attempts]_vars

\* the loop has stopped with two tables pending, both failed, on its third error
C11_Witness ==
    /\ pc = "restore_table_objects_end"
    /\ Len(unprocessed) = 2
    /\ Len(errors) = 3
    /\ Cardinality(Range(errors)) = 2

\* C12: an attempt that fails puts its table behind every table pending and adds
\* its error to the list; an attempt that succeeds empties the list; so no table
\* that was created is among the errors counted or among the tables reported
\* failed
C12_RequeueAtBackAndClearOnSuccess ==
    /\ [](/\ Range(errors) \cap ch_tables = {}
          /\ LoopReturned => ReportedFailed \cap ch_tables = {})
    /\ [][pc = "restore_table_objects" =>
            LET table == Head(unprocessed) IN
            IF table \in ch_tables'
            THEN errors' = <<>> /\ unprocessed' = Tail(unprocessed)
            ELSE /\ errors' = Append(errors, table)
                 /\ unprocessed' = Append(Tail(unprocessed), table)]_vars

\* a table failed and waits behind one not yet attempted, and the success of
\* another has emptied the error list
C12_Witness ==
    /\ pc = "restore_table_objects"
    /\ Len(unprocessed) = 2
    /\ unprocessed[1] \notin Range(first_attempts)
    /\ unprocessed[2] \in Range(first_attempts)
    /\ Cardinality(ch_tables) = 1
    /\ errors = <<>>

(***************************************************************************)
(* Properties of the order of the phases.                                  *)
(***************************************************************************)
\* the order of the phases as stated
StatedRank == [schema |-> 1, cleanup |-> 2, disks |-> 3, copy |-> 4, attach |-> 5]

\* the order of the phases in restore: copies and attaches take turns, table by table
CodeRank == [cleanup |-> 1, schema |-> 2, disks |-> 3, copy |-> 4, attach |-> 4]

\* C13 as stated: in one run the calls come phase by phase in the order schema
\* creation, coordination cleanup, disk materialization, data copy, attach
C13_PhasesInStatedOrder ==
    \A i, j \in DOMAIN phases : i < j => StatedRank[phases[i]] < StatedRank[phases[j]]

\* C13: in one run the coordination cleanup comes before every creation of a
\* table, every creation before the disk materialization, and the materialization
\* (made whenever the backup has revisions) before every copy, download and
\* attach; copies and attaches then go table by table: a table's parts are
\* attached after all its copies and downloads have finished and before the
\* copies of the next table begin
C13_PhasesInCodeOrder ==
    /\ \A i, j \in DOMAIN phases : i < j => CodeRank[phases[i]] <= CodeRank[phases[j]]
    /\ (args.s3_revisions # {} /\ Range(phases) \cap {"copy", "attach"} # {})
          => "disks" \in Range(phases)
    /\ pc = "parts" => attach_log = <<>>
    /\ pc = "attach" => parts_iter = <<>> /\ transfers = {}

\* a run that went through every phase and restored the data of two tables
C13_Witness ==
    phases = <<"cleanup", "schema", "disks", "copy", "attach", "copy", "attach">>

(***************************************************************************)
(* Properties of the disk materialization.                                 *)
(***************************************************************************)
\* C14: in one run restart_disk is called at most once for a disk, only for disks
\* of the revision map, and never for a disk that the journal, as read from its
\* file when the run began and updated since, holds as restarted
C14_DiskRestartedAtMostOnce ==
    /\ [](/\ \A i, j \in DOMAIN restarted : restarted[i] = restarted[j] => i = j
          /\ Range(restarted) \subseteq args.s3_revisions)
    /\ [][(restarted' # restarted /\ run' = run) =>
            /\ restarted' = Append(restarted, Head(disks_iter))
            /\ Head(disks_iter) \notin journal.disks]_vars

\* a second run found one of the two disks restarted by the first, left it
\* alone and restarted the other
C14_Witness ==
    /\ run = 2
    /\ pc = "restore_data"
    /\ args.s3_revisions = {"object_storage", "object_storage_cold"}
    /\ Len(restarted) = 1
    /\ journal_file.disks = args.s3_revisions

(***************************************************************************)
(* Properties of BackupMetadata.load.                                      *)
(***************************************************************************)
\* the fields load cannot do without
RequiredFields ==
    {"name", "path", "hostname", "time_format", "bytes", "real_bytes", "state",
     "ch_version", "labels", "version"}

\* the five state strings
StateStrings == {"created", "creating", "deleting", "partially_deleted", "failed"}

\* a document with every required field and one of the five state strings
WellFormed(doc) ==
    /\ {"meta", "databases"} \subseteq DOMAIN doc
    /\ RequiredFields \subseteq DOMAIN doc.meta
    /\ doc.meta.state \in StateStrings

\* C15: load called on a document either returns a metadata whose state is one of
\* the five members, or raises InvalidBackupStruct and returns nothing; it raises
\* whenever 'meta', 'databases' or a required field of 'meta' is missing or the
\* state string is none of the five, and returns otherwise
C15_LoadReturnsOrInvalidStruct ==
    "none" \notin DOMAIN document =>
        IF WellFormed(document)
        THEN /\ raised = None
             /\ loaded.backup._state \in {"CREATED", "CREATING", "DELETING",
                                          "PARTIALLY_DELETED", "FAILED"}
             /\ BackupState[loaded.backup._state] = document.meta.state
        ELSE raised = "InvalidBackupStruct" /\ loaded.backup = NoBackup

\* load refused a document dumped in state deleting whose state string was replaced
C15_Witness ==
    /\ "none" \notin DOMAIN document
    /\ "meta" \in DOMAIN document
    /\ "state" \in DOMAIN document.meta
    /\ document.meta.state = "CREATED"
    /\ backup_meta._state = "DELETING"
    /\ raised = "InvalidBackupStruct"

(***************************************************************************)
(* Properties of the lifecycle state.                                      *)
(***************************************************************************)
\* the lifecycle: creating, created, deleting, partially_deleted; failed is outside
\* it, and a state that follows failed is not taken for a step back
LifecycleRank ==
    [FAILED |-> 0, CREATING |-> 1, CREATED |-> 2, DELETING |-> 3, PARTIALLY_DELETED |-> 4]

\* C16 as stated: an assignment accepted never puts an earlier state of the
\* lifecycle after a later one, unless it assigns failed
C16_StateOnlyMovesForward ==
    (prev_state # None /\ backup_meta._state # "FAILED") =>
        LifecycleRank[prev_state] <= LifecycleRank[backup_meta._state]

\* C16: a BackupMetadata starts in state creating, its state is always one of the
\* five members, and the setter accepts an assignment exactly when the value is
\* one of them, whatever the state it replaces: a refused assignment changes
\* nothing, an accepted one may put any state after any other
C16_StateIsAlwaysAMember ==
    /\ [](/\ backup_meta._state \in {"CREATED", "CREATING", "DELETING",
                                     "PARTIALLY_DELETED", "FAILED"}
          /\ prev_state = None => backup_meta._state = "CREATING")
    /\ [][/\ raised' = "UnknownBackupStateError" => backup_meta' = backup_meta
          /\ backup_meta'._state # backup_meta._state => raised' = None]_vars

\* creating was assigned to a backup in state created
C16_Witness ==
    /\ prev_state = "CREATED"
    /\ backup_meta._state = "CREATING"
    /\ raised = None

\* the backup in another state
InState(self, state) == [self EXCEPT !._state = state]

\* the two calls raised alike and left the same tree and the same counters
SameEffect(r1, r2) ==
    /\ r1.raised = r2.raised
    /\ r1.self._databases = r2.self._databases
    /\ r1.self.size = r2.self.size
    /\ r1.self.real_size = r2.self.real_size

\* the states in which the metadata is said to be read-only
ReadOnlyStates == {"CREATED", "PARTIALLY_DELETED", "FAILED"}

\* C17 as stated: while the state is created, partially_deleted or failed no
\* call changes the tree or the counters
C17_ReadOnlyUnlessCreatingOrDeleting ==
    [][backup_meta._state \in ReadOnlyStates =>
          /\ backup_meta'._databases = backup_meta._databases
          /\ backup_meta'.size = backup_meta.size
          /\ backup_meta'.real_size = backup_meta.real_size]_vars

\* C17: add_database, add_table, add_part and remove_parts do to the tree and to
\* the counters of a backup in state created, partially_deleted or failed what
\* they do to the same backup in state creating, and never change the state
C17_MutationIgnoresState ==
    LET creating == InState(backup_meta, "CREATING") IN
    backup_meta._state \in ReadOnlyStates =>
        /\ \A db \in DbNames :
              SameEffect(BackupMetadata_add_database(backup_meta, db),
                         BackupMetadata_add_database(creating, db))
        /\ \A db \in DbNames, t \in TableNames, n \in PartNames, d \in PartDescs :
              LET part == NewPart(db, t, n, d[1], d[2])
                  table == PopulatedTable(TableMetadata(db, t, "MergeTree", None),
                                          [x \in {n} |-> d], {n})
              IN  /\ SameEffect(BackupMetadata_add_part(backup_meta, part),
                                BackupMetadata_add_part(creating, part))
                  /\ SameEffect(BackupMetadata_add_table(backup_meta, table),
                                BackupMetadata_add_table(creating, table))
                  /\ SameEffect(BackupMetadata_remove_parts(backup_meta, table, <<part>>),
                                BackupMetadata_remove_parts(creating, table, <<part>>))
                  /\ BackupMetadata_add_table(backup_meta, table).self._state
                         = backup_meta._state

\* a backup in state created with a part in it, to which add_database adds a
\* database and from which remove_parts takes the part
C17_Witness ==
    /\ backup_meta._state = "CREATED"
    /\ BackupMetadata_add_database(backup_meta, "db2").raised = None
    /\ BackupMetadata_add_database(backup_meta, "db2").self._databases
           # backup_meta._databases
    /\ BackupMetadata_has_table(backup_meta, "db1", "t1")
    /\ LET table == BackupMetadata_get_table(backup_meta, "db1", "t1")
           r == BackupMetadata_remove_parts(backup_meta, table,
                    <<NewPart("db1", "t1", 1, 2, None)>>)
       IN  r.raised = None /\ r.self.size = backup_meta.size - 2

(***************************************************************************)
(* The backup of a table's data, generation after generation.              *)
(***************************************************************************)
\* most backups taken of the table
MaxGenerations == 3

\* the paths of the backups, by generation
BackupPaths == <<"backups/b1", "backups/b2", "backups/b3", "backups/b4", "backups/b5">>

\* the disks of the table, in the order of table.paths_with_disks
Disks ==
    <<[name |-> "default", type |-> "local"], [name |-> "object_storage", type |-> "s3"]>>

\* a frozen part as list_freezed_parts hands it out
FrozenPart(name, checksum, disk_name) ==
    [database |-> "db1", table |-> "t1", name |-> name, checksum |-> checksum,
     size |-> IF checksum = "cafe" THEN 1 ELSE 2, files |-> <<"data.bin">>,
     disk_name |-> disk_name]

\* what freezing the table may leave: part 1, if there, on the local disk with either
\* content; part 2, if there, on either disk; <<fpart, disk>> in the order visited
FreezedLists ==
    LET part1 == {<<>>} \cup {<< <<FrozenPart(1, c, "default"), Disks[1]>> >> : c \in {"cafe", "beef"}}
        part2 == {<<>>} \cup {<< <<FrozenPart(2, "f00d", Disks[d].name), Disks[d]>> >> : d \in DOMAIN Disks}
    IN  {a \o b : a \in part1, b \in part2}

\* FrozenPart.to_part_metadata: the record of a part stored by this backup
FrozenPart_to_part_metadata(fpart) ==
    PartMetadata(fpart.database, fpart.table, fpart.name, fpart.checksum, fpart.size,
                 fpart.files, TRUE, None, fpart.disk_name)

\* no part: what deduplicate_part returns on a miss
NoPart == [none |-> TRUE]

\* the entry the index keeps for a part of a prior backup
PartDedupInfo(backup_path, part) ==
    [backup_path |-> backup_path, checksum |-> part.raw_metadata.checksum,
     size |-> part.raw_metadata.size, tarball |-> part.raw_metadata.tarball,
     link |-> part.raw_metadata.link]

\* the parts a backup records for the table
RecordedParts(meta, db_name, table_name) ==
    IF BackupMetadata_has_table(meta, db_name, table_name)
    THEN TableMetadata_get_parts(BackupMetadata_get_table(meta, db_name, table_name))
    ELSE {}

\* the index of the table's parts over prior backups, the newest first: a part name
\* keeps the entry of the newest backup that records it
RECURSIVE collect_dedup_info(_, _, _, _)
collect_dedup_info(backups, db_name, table_name, index) ==
    IF backups = <<>> THEN index
    ELSE LET backup == Head(backups)
             new == {p \in RecordedParts(backup, db_name, table_name) :
                        p.name \notin DOMAIN index}
         IN  collect_dedup_info(Tail(backups), db_name, table_name,
                [n \in DOMAIN index \cup {p.name : p \in new} |->
                    IF n \in DOMAIN index THEN index[n]
                    ELSE PartDedupInfo(backup.path, CHOOSE p \in new : p.name = n)])

\* the newest k of the backups, the newest first
Newest(backups, k) == [i \in 1..k |-> backups[Len(backups) + 1 - i]]

\* the match rule: checksum, size and layout equal
DedupMatch(fpart, entry) ==
    /\ entry.checksum = fpart.checksum
    /\ entry.size = fpart.size
    /\ entry.tarball = FrozenPart_to_part_metadata(fpart).raw_metadata.tarball

\* a hit links to the backup of the entry, or to the target of the entry if the
\* entry is itself a link
deduplicate_part(fpart, index) ==
    IF fpart.name \notin DOMAIN index THEN NoPart
    ELSE LET entry == index[fpart.name] IN
         IF ~DedupMatch(fpart, entry) THEN NoPart
         ELSE PartMetadata(fpart.database, fpart.table, fpart.name, fpart.checksum,
                           fpart.size, fpart.files, entry.tarball,
                           IF entry.link \in {None, ""} THEN entry.backup_path
                           ELSE entry.link,
                           fpart.disk_name)

\* a lookup whose hit always links to the backup of the matched entry
DedupLookup_rechain(fpart, index) ==
    LET part == deduplicate_part(fpart, index) IN
    IF part = NoPart THEN NoPart
    ELSE [part EXCEPT !.raw_metadata.link = index[fpart.name].backup_path]

\* part = deduplicate_part(self._backup_layout, fpart, dedup_info)
DedupLookup(fpart, index) == deduplicate_part(fpart, index)

\* a test of the disk type that takes every disk for a local one
IsS3_never(disk) == FALSE

\* disk.type == 's3'
IsS3(disk) == disk.type = "s3"

\* a hit that leaves the frozen copy where it is
OnHit_keep(calls, fpart) == calls

\* on a hit: self._ch_ctl.remove_freezed_part(fpart)
OnHit(calls, fpart) == Append(calls, <<"remove_freezed_part", fpart.name>>)

\* the body of the loop with the frozen copy removed as soon as its upload is enqueued
VisitPart_removeenqueued(fpart, disk, index, calls, uploaded) ==
    IF IsS3(disk)
    THEN [part |-> FrozenPart_to_part_metadata(fpart), calls |-> calls,
          uploaded |-> uploaded]
    ELSE LET part == DedupLookup(fpart, index)
             looked == Append(calls, <<"deduplicate_part", fpart.name>>)
         IN  IF part # NoPart
             THEN [part |-> part, calls |-> OnHit(looked, fpart), uploaded |-> uploaded]
             ELSE [part |-> FrozenPart_to_part_metadata(fpart),
                   calls |-> looked \o << <<"upload_data_part", fpart.name>>,
                                         <<"remove_freezed_part", fpart.name>> >>,
                   uploaded |-> Append(uploaded, FrozenPart_to_part_metadata(fpart))]

\* the body of the loop over the frozen parts, up to the part to record
VisitPart(fpart, disk, index, calls, uploaded) ==
    IF IsS3(disk)
    THEN [part |-> FrozenPart_to_part_metadata(fpart), calls |-> calls,
          uploaded |-> uploaded]
    ELSE LET part == DedupLookup(fpart, index)
             looked == Append(calls, <<"deduplicate_part", fpart.name>>)
         IN  IF part # NoPart
             THEN [part |-> part, calls |-> OnHit(looked, fpart), uploaded |-> uploaded]
             ELSE [part |-> FrozenPart_to_part_metadata(fpart),
                   calls |-> Append(looked, <<"upload_data_part", fpart.name>>),
                   uploaded |-> Append(uploaded, FrozenPart_to_part_metadata(fpart))]

\* _backup_table_data up to the loop: the table is frozen and its parts are listed;
\* the index handed in covers the newest k backups
BackupTableData ==
    /\ bpc \in {"backup", "failed"}
    /\ Len(generations) < MaxGenerations
    /\ \E k \in 0..Len(generations), listed \in FreezedLists :
          /\ dedup_info' = collect_dedup_info(Newest(generations, k), "db1", "t1", EmptyDict)
          /\ freezed_parts' = listed
    /\ fpart_i' = 0
    /\ table_meta' = TableMetadata("db1", "t1", "MergeTree", None)
    /\ uploaded_parts' = <<>>
    /\ bk_calls' = <<>>
    /\ bk_exc' = None
    /\ bpc' = "parts"
    /\ UNCHANGED <<generations, bk_config>>
    /\ UNCHANGED <<metaVars, schemaVars, dataVars, captureVars, compareVars>>

\* one frozen part
BackupPart ==
    /\ bpc = "parts"
    /\ fpart_i < Len(freezed_parts)
    /\ LET fpart == freezed_parts[fpart_i + 1][1]
           disk == freezed_parts[fpart_i + 1][2]
           r == VisitPart(fpart, disk, dedup_info, bk_calls, uploaded_parts)
       IN  /\ uploaded_parts' = r.uploaded
           /\ fpart_i' = fpart_i + 1
           /\ IF TableMetadata_add_part_ok(table_meta, r.part)
              THEN /\ table_meta' = TableMetadata_add_part(table_meta, r.part)
                   /\ bk_calls' = Append(r.calls, <<"add_part", fpart.name>>)
                   /\ UNCHANGED <<bpc, bk_exc>>
              ELSE /\ bk_calls' = r.calls
                   /\ bpc' = "failed"
                   /\ bk_exc' = "AssertionError"
                   /\ UNCHANGED table_meta
    /\ UNCHANGED <<generations, bk_config, dedup_info, freezed_parts>>
    /\ UNCHANGED <<metaVars, schemaVars, dataVars, captureVars, compareVars>>

\* self._backup_layout.wait(): it returns, or raises if an upload failed
BackupWait ==
    /\ bpc = "parts"
    /\ fpart_i = Len(freezed_parts)
    /\ \E ok \in IF uploaded_parts = <<>> THEN {TRUE} ELSE BOOLEAN :
          IF ok
          THEN /\ bpc' = "validate"
               /\ UNCHANGED bk_exc
          ELSE /\ bpc' = "failed"
               /\ bk_exc' = "Exception"
    /\ bk_calls' = Append(bk_calls, <<"wait", 0>>)
    /\ UNCHANGED <<generations, bk_config, dedup_info, freezed_parts, fpart_i, table_meta,
                   uploaded_parts>>
    /\ UNCHANGED <<metaVars, schemaVars, dataVars, captureVars, compareVars>>

\* logging.error('Uploaded part is broken, ...') for each of the invalid parts, in the
\* order of uploaded_parts
BrokenLog(parts, invalid_parts) ==
    LET broken == SelectSeq(parts, LAMBDA part : part \in invalid_parts) IN
    [i \in DOMAIN broken |-> <<"broken", broken[i].name>>]

\* _validate_uploaded_parts: any of the uploaded parts may turn out broken
BackupValidate ==
    /\ bpc = "validate"
    /\ IF ~bk_config.validate_part_after_upload
       THEN /\ bpc' = "remove_freezed_data"
            /\ UNCHANGED <<bk_calls, bk_exc>>
       ELSE \E invalid_parts \in SUBSET Range(uploaded_parts) :
               /\ bk_calls' = bk_calls \o
                      [i \in 1..Len(uploaded_parts) |->
                          <<"check_data_part", uploaded_parts[i].name>>] \o
                      BrokenLog(uploaded_parts, invalid_parts)
               /\ IF invalid_parts # {}
                  THEN /\ bpc' = "failed"
                       /\ bk_exc' = "RuntimeError"
                  ELSE /\ bpc' = "remove_freezed_data"
                       /\ UNCHANGED bk_exc
    /\ UNCHANGED <<generations, bk_config, dedup_info, freezed_parts, fpart_i, table_meta,
                   uploaded_parts>>
    /\ UNCHANGED <<metaVars, schemaVars, dataVars, captureVars, compareVars>>

\* self._ch_ctl.remove_freezed_data()
BackupRemoveFreezedData ==
    /\ bpc = "remove_freezed_data"
    /\ bk_calls' = Append(bk_calls, <<"remove_freezed_data", 0>>)
    /\ bpc' = "add_table"
    /\ UNCHANGED <<generations, bk_config, dedup_info, freezed_parts, fpart_i, table_meta,
                   uploaded_parts, bk_exc>>
    /\ UNCHANGED <<metaVars, schemaVars, dataVars, captureVars, compareVars>>

\* the metadata of the backup of generation g with its one database
NewBackup(g) ==
    BackupMetadata_add_database([BackupMetadata_init EXCEPT !.path = BackupPaths[g]],
                                "db1").self

\* backup_meta.add_table(table_meta): the table is registered and the backup finished
BackupAddTable ==
    /\ bpc = "add_table"
    /\ generations' =
          Append(generations,
                 BackupMetadata_add_table(NewBackup(Len(generations) + 1), table_meta).self)
    /\ bpc' = "backup"
    /\ UNCHANGED <<bk_config, dedup_info, freezed_parts, fpart_i, table_meta,
                   uploaded_parts, bk_calls, bk_exc>>
    /\ UNCHANGED <<metaVars, schemaVars, dataVars, captureVars, compareVars>>

BackupInit ==
    /\ MetaIdle
    /\ CaptureIdle
    /\ CompareIdle
    /\ SchemaIdle
    /\ DataIdle
    /\ bpc = "backup"
    /\ generations = <<>>
    /\ bk_config \in [validate_part_after_upload : BOOLEAN]
    /\ dedup_info = EmptyDict
    /\ freezed_parts = <<>>
    /\ fpart_i = 0
    /\ table_meta = TableMetadata("db1", "t1", "MergeTree", None)
    /\ uploaded_parts = <<>>
    /\ bk_calls = <<>>
    /\ bk_exc = None

BackupNext ==
    \/ BackupTableData
    \/ BackupPart
    \/ BackupWait
    \/ BackupValidate
    \/ BackupRemoveFreezedData
    \/ BackupAddTable

SpecBackup == BackupInit /\ [][BackupNext]_vars

(***************************************************************************)
(* Links over the generations.                                             *)
(***************************************************************************)
\* the backup at `path` records the part, with the same content, without a link
HeldPhysically(path, part) ==
    \E g \in DOMAIN generations :
        /\ generations[g].path = path
        /\ \E held \in RecordedParts(generations[g], part.database, part.table) :
              /\ held.name = part.name
              /\ held.raw_metadata.checksum = part.raw_metadata.checksum
              /\ held.raw_metadata.size = part.raw_metadata.size
              /\ NoLink(held)

\* the parts recorded by the finished backups and by the backup under way
AllRecordedParts ==
    UNION {RecordedParts(generations[g], "db1", "t1") : g \in DOMAIN generations}
        \cup TableMetadata_get_parts(table_meta)

\* C18: over any chain of backups of the table, the link of every part recorded with
\* a link is the path of a finished backup that records the same part (name,
\* checksum and size) without a link, so no link leads to a link.
C18_LinkTargetsHoldThePart ==
    \A part \in AllRecordedParts :
        ~NoLink(part) => HeldPhysically(part.raw_metadata.link, part)

\* a third backup has linked part 1 through an index entry of the second backup that
\* is itself a link to the first
C18_Witness ==
    /\ Len(generations) = 3
    /\ bpc = "backup"
    /\ 1 \in DOMAIN dedup_info
    /\ dedup_info[1].backup_path = "backups/b2"
    /\ dedup_info[1].link = "backups/b1"
    /\ \E part \in RecordedParts(generations[3], "db1", "t1") :
          part.name = 1 /\ part.raw_metadata.link = "backups/b1"
    /\ \E part \in RecordedParts(generations[1], "db1", "t1") :
          part.name = 1 /\ NoLink(part)

(***************************************************************************)
(* What is done with each frozen part.                                     *)
(***************************************************************************)
\* the number of calls `call` made for the part `name` in this backup
CallsOf(call, name) ==
    Cardinality({i \in DOMAIN bk_calls : bk_calls[i] = <<call, name>>})

\* the table under way records the part `name`
IsRecorded(name) == name \in DOMAIN table_meta.raw_metadata.parts

\* the part the table under way records as `name`
RecordedAs(name) ==
    PartMetadata_load(table_meta.database, table_meta.name, name,
                      table_meta.raw_metadata.parts[name])

InUploadedParts(name) == \E i \in DOMAIN uploaded_parts : uploaded_parts[i].name = name

\* the frozen copy was removed, nothing was uploaded, the part is recorded with a link
HitOutcome(fpart) ==
    /\ CallsOf("remove_freezed_part", fpart.name) = 1
    /\ CallsOf("upload_data_part", fpart.name) = 0
    /\ ~InUploadedParts(fpart.name)
    /\ IsRecorded(fpart.name)
    /\ ~NoLink(RecordedAs(fpart.name))

\* the part was uploaded, its frozen copy was left, and it is recorded without a link
MissOutcome(fpart) ==
    /\ CallsOf("upload_data_part", fpart.name) = 1
    /\ CallsOf("remove_freezed_part", fpart.name) = 0
    /\ InUploadedParts(fpart.name)
    /\ IsRecorded(fpart.name)
    /\ NoLink(RecordedAs(fpart.name))

\* C19: for every frozen part on a local disk that the loop has visited, exactly one
\* of the two outcomes holds: the hit outcome (frozen copy removed, no upload,
\* recorded with a link) if the lookup hit, the miss outcome (uploaded, recorded
\* without a link) if it missed; every frozen part visited was recorded by exactly one
\* add_part call, and the table records no other part.
C19_HitOrMissAndRecordedOnce ==
    /\ \A i \in 1..fpart_i :
          LET fpart == freezed_parts[i][1]
              disk == freezed_parts[i][2]
              hit == deduplicate_part(fpart, dedup_info) # NoPart
          IN  /\ disk.type # "s3" =>
                    /\ hit => HitOutcome(fpart) /\ ~MissOutcome(fpart)
                    /\ ~hit => MissOutcome(fpart) /\ ~HitOutcome(fpart)
              /\ CallsOf("add_part", fpart.name) = 1
              /\ IsRecorded(fpart.name)
    /\ DOMAIN table_meta.raw_metadata.parts = {freezed_parts[i][1].name : i \in 1..fpart_i}
    /\ bpc = "backup" /\ generations # <<>> =>
          RecordedParts(generations[Len(generations)], "db1", "t1")
              = TableMetadata_get_parts(table_meta)

\* a table whose two frozen parts are on the local disk has been gone through: part 1
\* was a hit, part 2 a miss
C19_Witness ==
    /\ bpc = "add_table"
    /\ fpart_i = 2
    /\ freezed_parts[2][2].type = "local"
    /\ deduplicate_part(freezed_parts[1][1], dedup_info) # NoPart
    /\ HitOutcome(freezed_parts[1][1])
    /\ deduplicate_part(freezed_parts[2][1], dedup_info) = NoPart
    /\ MissOutcome(freezed_parts[2][1])

\* C20: a frozen part on a disk of type s3 that the loop has visited is recorded as
\* to_part_metadata gives it, by one add_part call; no deduplicate_part,
\* upload_data_part, remove_freezed_part or check_data_part call is made for it and it
\* is not in uploaded_parts, also once verification has run.
C20_ObjectStoragePartRecordedDirectly ==
    \A i \in 1..fpart_i :
        LET fpart == freezed_parts[i][1]
            disk == freezed_parts[i][2]
        IN  disk.type = "s3" =>
                /\ CallsOf("deduplicate_part", fpart.name) = 0
                /\ CallsOf("upload_data_part", fpart.name) = 0
                /\ CallsOf("remove_freezed_part", fpart.name) = 0
                /\ CallsOf("check_data_part", fpart.name) = 0
                /\ ~InUploadedParts(fpart.name)
                /\ CallsOf("add_part", fpart.name) = 1
                /\ IsRecorded(fpart.name)
                /\ RecordedAs(fpart.name) = FrozenPart_to_part_metadata(fpart)

\* verification has run over the uploaded part 1 of a table whose part 2 is on the
\* object storage disk and is in the index of the prior backups with the same content
C20_Witness ==
    /\ bpc = "remove_freezed_data"
    /\ bk_config.validate_part_after_upload
    /\ fpart_i = 2
    /\ freezed_parts[2][2].type = "s3"
    /\ deduplicate_part(freezed_parts[2][1], dedup_info) # NoPart
    /\ CallsOf("check_data_part", 1) = 1
    /\ IsRecorded(2)
    /\ NoLink(RecordedAs(2))

(***************************************************************************)
(* TableBackup.backup: the databases and their tables, one after another.  *)
(***************************************************************************)
\* the databases handed to backup, in order
CaptureDatabases == <<"db1", "db2">>

\* the tables ClickHouse lists for each database, in order
CaptureTables == [db1 |-> <<"t1", "t2">>, db2 |-> <<"t1">>]

\* the engines ClickHouse may report for a table
CaptureEngines == {"MergeTree", "Log"}

\* the index of the prior backups for a table: its part 1, stored by backups/b0
CaptureIndex(db_name, table_name) ==
    [n \in {1} |->
        PartDedupInfo("backups/b0",
                      PartMetadata(db_name, table_name, 1, "cafe", 1, <<"data.bin">>, TRUE,
                                   None, "default"))]

\* what freezing may leave for the table
FreezedListsOf(db_name, table_name) ==
    {[i \in DOMAIN listed |->
        <<[listed[i][1] EXCEPT !.database = db_name, !.table = table_name], listed[i][2]>>] :
        listed \in FreezedLists}

\* a failed freeze that always aborts
FreezeFailed_raise(table_exists) == "raise"

\* except ClickhouseError: re-raised if the table still exists, else logged and
\* _backup_table_data returns
FreezeFailed(table_exists) == IF table_exists THEN "raise" ELSE "return"

\* the metadata of the backup under way: both databases are registered before the
\* tables are backed up
CaptureMeta ==
    BackupMetadata_add_database(BackupMetadata_add_database(BackupMetadata_init, "db1").self,
                                "db2").self

CaptureInit ==
    /\ SchemaIdle
    /\ DataIdle
    /\ CompareIdle
    /\ backup_meta = CaptureMeta
    /\ loaded = NotLoaded
    /\ raised = None
    /\ document = NoDocument
    /\ prev_state = None
    /\ cpc = "backup"
    /\ schema_only \in BOOLEAN
    /\ db_iter = CaptureDatabases
    /\ tables_iter = <<>>
    /\ persisted = <<>>
    /\ capture_log = <<>>
    /\ bpc = "idle"
    /\ generations = <<>>
    /\ bk_config \in [validate_part_after_upload : BOOLEAN]
    /\ dedup_info = EmptyDict
    /\ freezed_parts = <<>>
    /\ fpart_i = 0
    /\ table_meta = TableMetadata("db1", "t1", "MergeTree", None)
    /\ uploaded_parts = <<>>
    /\ bk_calls = <<>>
    /\ bk_exc = None

\* backup, the head of the loop over the databases, and _backup up to its loop: the
\* tables of an external database are not visited
CaptureDatabase ==
    /\ cpc = "backup"
    /\ db_iter # <<>>
    /\ \E external \in BOOLEAN :
          tables_iter' = IF external THEN <<>> ELSE CaptureTables[Head(db_iter)]
    /\ cpc' = "tables"
    /\ capture_log' = Append(capture_log, <<"database", Head(db_iter), None>>)
    /\ UNCHANGED <<schema_only, db_iter, persisted>>
    /\ UNCHANGED <<metaVars, schemaVars, dataVars, backupVars, compareVars>>

\* _backup, one table: its TableMetadata is made and its schema uploaded; unless
\* schema_only, _backup_table_data is entered and the table frozen
CaptureTable ==
    /\ cpc = "tables"
    /\ tables_iter # <<>>
    /\ LET db_name == Head(db_iter)
           table_name == Head(tables_iter)
       IN  /\ capture_log' = Append(capture_log, <<"schema", db_name, table_name>>)
           /\ dedup_info' = CaptureIndex(db_name, table_name)
           /\ \E engine \in CaptureEngines :
                 /\ table_meta' = TableMetadata(db_name, table_name, engine, None)
                 /\ IF schema_only \/ ~is_merge_tree(engine)
                    THEN /\ cpc' = "add_table"
                         /\ bk_calls' = <<>>
                         /\ freezed_parts' = <<>>
                         /\ UNCHANGED <<bpc, bk_exc>>
                    ELSE \/ \E listed \in FreezedListsOf(db_name, table_name) :
                               /\ bk_calls' = << <<"freeze_table", 0>> >>
                               /\ freezed_parts' = listed
                               /\ cpc' = "table_data"
                               /\ bpc' = "parts"
                               /\ UNCHANGED bk_exc
                         \/ \E table_exists \in BOOLEAN :
                               /\ bk_calls' =
                                     << <<"freeze_table", 0>>,
                                        <<IF table_exists THEN "table_exists"
                                          ELSE "table_dropped", 0>> >>
                               /\ freezed_parts' = <<>>
                               /\ IF FreezeFailed(table_exists) = "raise"
                                  THEN /\ cpc' = "failed"
                                       /\ bk_exc' = "ClickhouseError"
                                  ELSE /\ cpc' = "add_table"
                                       /\ UNCHANGED bk_exc
                               /\ UNCHANGED bpc
    /\ fpart_i' = 0
    /\ uploaded_parts' = <<>>
    /\ UNCHANGED <<generations, bk_config>>
    /\ UNCHANGED <<schema_only, db_iter, tables_iter, persisted>>
    /\ UNCHANGED <<metaVars, schemaVars, dataVars, compareVars>>

\* an exception that leaves _backup_table_data and is caught nowhere in _backup
\* or backup, yet the backup goes on with the table
CaptureRaise_swallow ==
    /\ cpc = "table_data"
    /\ bpc = "failed"
    /\ cpc' = "add_table"
    /\ bpc' = "idle"
    /\ UNCHANGED <<generations, bk_config, dedup_info, freezed_parts, fpart_i, table_meta,
                   uploaded_parts, bk_calls, bk_exc>>
    /\ UNCHANGED <<schema_only, db_iter, tables_iter, persisted, capture_log>>
    /\ UNCHANGED <<metaVars, schemaVars, dataVars, compareVars>>

\* an exception that leaves _backup_table_data leaves _backup and backup
CaptureRaise ==
    /\ cpc = "table_data"
    /\ bpc = "failed"
    /\ cpc' = "failed"
    /\ UNCHANGED <<schema_only, db_iter, tables_iter, persisted, capture_log>>
    /\ UNCHANGED <<metaVars, schemaVars, dataVars, backupVars, compareVars>>

\* backup_meta.add_table(table_meta), after _backup_table_data returned or was not
\* entered
CaptureAddTable ==
    /\ \/ cpc = "add_table"
       \/ cpc = "table_data" /\ bpc = "add_table"
    /\ LET r == BackupMetadata_add_table(backup_meta, table_meta) IN
       IF r.raised = None
       THEN /\ backup_meta' = r.self
            /\ tables_iter' = Tail(tables_iter)
            /\ capture_log' =
                  Append(capture_log, <<"add_table", Head(db_iter), Head(tables_iter)>>)
            /\ cpc' = "tables"
            /\ UNCHANGED bk_exc
       ELSE /\ cpc' = "failed"
            /\ bk_exc' = r.raised
            /\ UNCHANGED <<backup_meta, tables_iter, capture_log>>
    /\ bpc' = "idle"
    /\ UNCHANGED <<generations, bk_config, dedup_info, freezed_parts, fpart_i, table_meta,
                   uploaded_parts, bk_calls>>
    /\ UNCHANGED <<schema_only, db_iter, persisted>>
    /\ UNCHANGED <<loaded, raised, document, prev_state>>
    /\ UNCHANGED <<schemaVars, dataVars, compareVars>>

\* a backup that uploads no document after a database
CaptureUploadMetadata_skip ==
    /\ cpc = "tables"
    /\ tables_iter = <<>>
    /\ db_iter' = Tail(db_iter)
    /\ cpc' = "backup"
    /\ UNCHANGED <<schema_only, tables_iter, persisted, capture_log>>
    /\ UNCHANGED <<metaVars, schemaVars, dataVars, backupVars, compareVars>>

\* the end of _backup: self._backup_layout.upload_backup_metadata(backup_meta)
CaptureUploadMetadata ==
    /\ cpc = "tables"
    /\ tables_iter = <<>>
    /\ persisted' = Append(persisted, backup_meta)
    /\ capture_log' = Append(capture_log, <<"upload_backup_metadata", Head(db_iter), None>>)
    /\ db_iter' = Tail(db_iter)
    /\ cpc' = "backup"
    /\ UNCHANGED <<schema_only, tables_iter>>
    /\ UNCHANGED <<metaVars, schemaVars, dataVars, backupVars, compareVars>>

\* the end of backup, once every database was visited
CaptureEnd ==
    /\ cpc = "backup"
    /\ db_iter = <<>>
    /\ cpc' = "done"
    /\ UNCHANGED <<schema_only, db_iter, tables_iter, persisted, capture_log>>
    /\ UNCHANGED <<metaVars, schemaVars, dataVars, backupVars, compareVars>>

CaptureNext ==
    \/ CaptureDatabase
    \/ CaptureTable
    \/ BackupPart
    \/ BackupWait
    \/ BackupValidate
    \/ BackupRemoveFreezedData
    \/ CaptureRaise
    \/ CaptureAddTable
    \/ CaptureUploadMetadata
    \/ CaptureEnd

SpecCapture == CaptureInit /\ [][CaptureNext]_vars

(***************************************************************************)
(* Failures during the backup.                                             *)
(***************************************************************************)
\* the number of entries `call` of this table's log, for any part
CallsFor(call) == Cardinality({i \in DOMAIN bk_calls : bk_calls[i][1] = call})

\* verification found a part of the table under way that does not match its remote copy
FoundBroken == CallsFor("broken") > 0

\* the table under way
CurrentTable == <<Head(db_iter), Head(tables_iter)>>

\* C21: with verification enabled, once a part uploaded for a table was found not to
\* match its remote copy, _backup_table_data has raised RuntimeError, that table is
\* not in the metadata, and from then on no table is registered, no schema or
\* metadata document is uploaded and no database is begun; with verification disabled
\* no check_data_part call is made.
C21_BrokenUploadAbortsBackup ==
    /\ [](FoundBroken =>
            /\ bk_config.validate_part_after_upload
            /\ bk_exc = "RuntimeError"
            /\ bpc = "failed"
            /\ cpc \in {"table_data", "failed"}
            /\ ~BackupMetadata_has_table(backup_meta, CurrentTable[1], CurrentTable[2]))
    /\ [](bk_exc = "RuntimeError" => FoundBroken)
    /\ [](~bk_config.validate_part_after_upload => CallsFor("check_data_part") = 0)
    /\ [][FoundBroken =>
            /\ cpc' = "failed"
            /\ UNCHANGED <<backup_meta, persisted, capture_log, db_iter, tables_iter,
                           bk_calls>>]_vars

\* the second table of db1 had a part uploaded that verification found broken, the
\* backup has ended with the first table registered, and no document was uploaded
C21_Witness ==
    /\ cpc = "failed"
    /\ bk_exc = "RuntimeError"
    /\ CallsOf("upload_data_part", 2) = 1
    /\ CallsOf("broken", 2) = 1
    /\ CurrentTable = <<"db1", "t2">>
    /\ BackupMetadata_has_table(backup_meta, "db1", "t1")
    /\ persisted = <<>>

\* the backup runs on: nothing suspends it
SpecCaptureLive == CaptureInit /\ [][CaptureNext]_vars /\ WF_vars(CaptureNext)

\* the table under way was frozen and _backup_table_data is in its loops or after them
FreezeSucceeded == cpc = "table_data"

\* remove_freezed_data was called since the table under way was frozen
FreezeReleased == CallsFor("remove_freezed_data") > 0

\* C22: whenever the freeze of a table has succeeded, remove_freezed_data is called
\* later on, whether the uploads, wait and the verification succeed or fail.
C22_FreezeEventuallyReleased == FreezeSucceeded ~> FreezeReleased

\* the backup has ended on a failed wait or verification of a frozen table, and
\* remove_freezed_data was not called
C22_EndedUnreleased ==
    /\ cpc = "failed"
    /\ bk_exc \in {"Exception", "RuntimeError"}
    /\ CallsFor("freeze_table") = 1
    /\ ~FreezeReleased

\* the freeze of the table under way failed and the table is gone
FreezeFailedDropped == CallsFor("table_dropped") > 0

\* the freeze of the table under way failed and the table is still there
FreezeFailedExists == CallsFor("table_exists") > 0

\* C23: when the freeze of a table fails and the table no longer exists, nothing is
\* raised, the table is registered next with no parts, size and real_size stay as they
\* are, and the loop goes on with the tables that remain; when the freeze fails and the
\* table still exists, ClickhouseError leaves the backup, the table is not registered
\* and nothing more is done.
C23_DroppedTableIsEmptyNotFatal ==
    /\ [](FreezeFailedDropped =>
            /\ bk_exc = None
            /\ TableMetadata_get_parts(table_meta) = {}
            /\ \/ cpc = "add_table"
               \/ BackupMetadata_has_table(backup_meta, table_meta.database, table_meta.name))
    /\ [][FreezeFailedDropped /\ cpc = "add_table" =>
            /\ cpc' = "tables"
            /\ tables_iter' = Tail(tables_iter)
            /\ BackupMetadata_has_table(backup_meta', CurrentTable[1], CurrentTable[2])
            /\ RecordedParts(backup_meta', CurrentTable[1], CurrentTable[2]) = {}
            /\ backup_meta'.size = backup_meta.size
            /\ backup_meta'.real_size = backup_meta.real_size]_vars
    /\ [](FreezeFailedExists =>
            /\ bk_exc = "ClickhouseError"
            /\ cpc = "failed"
            /\ ~BackupMetadata_has_table(backup_meta, CurrentTable[1], CurrentTable[2]))
    /\ [][FreezeFailedExists => UNCHANGED vars]_vars

\* the second table of db1 was dropped while it was frozen, after the first was backed
\* up with an uploaded part; it is registered with no parts, and the backup went on to
\* the next database and ended
C23_Witness ==
    /\ cpc = "done"
    /\ FreezeFailedDropped
    /\ table_meta.name = "t2"
    /\ Len(persisted) = 2
    /\ RecordedParts(backup_meta, "db1", "t1") # {}
    /\ BackupMetadata_has_table(backup_meta, "db1", "t2")
    /\ RecordedParts(backup_meta, "db1", "t2") = {}
    /\ backup_meta.real_size > 0
    /\ backup_meta.size = SumSizes(RecordedParts(backup_meta, "db1", "t1"))

(***************************************************************************)
(* The documents persisted during the backup.                              *)
(***************************************************************************)
\* the databases whose _backup call has returned
ProcessedDatabases ==
    {CaptureDatabases[i] : i \in 1..(Len(CaptureDatabases) - Len(db_iter))}

\* the tables of the database whose schema was uploaded
CapturedTables(db_name) ==
    {capture_log[i][3] : i \in {j \in DOMAIN capture_log :
                                    capture_log[j][1] = "schema" /\ capture_log[j][2] = db_name}}

\* the positions of the log with steps of the database
StepsOf(db_name) == {i \in DOMAIN capture_log : capture_log[i][2] = db_name}

\* the position of the log where the document was uploaded after the database
UploadStep(db_name) ==
    CHOOSE i \in DOMAIN capture_log :
        capture_log[i] = <<"upload_backup_metadata", db_name, None>>

\* C24: at every point of the backup, where a crash may strike, one document was
\* uploaded for each database whose _backup call has returned, as the last step of
\* that database and before the first step of the next one; each document, and so the
\* last one, contains every captured table of that database and of the databases
\* before it.
C24_DocumentPersistedAfterEachDatabase ==
    /\ Len(persisted) = Cardinality(ProcessedDatabases)
    /\ \A g \in 1..Len(persisted) :
          LET db_name == CaptureDatabases[g] IN
          /\ Cardinality({i \in StepsOf(db_name) :
                             capture_log[i][1] = "upload_backup_metadata"}) = 1
          /\ \A i \in StepsOf(db_name) : i <= UploadStep(db_name)
          /\ \A h \in (g + 1)..Len(CaptureDatabases) :
                \A i \in StepsOf(CaptureDatabases[h]) : i > UploadStep(db_name)
          /\ \A h \in 1..g :
                \A table_name \in CapturedTables(CaptureDatabases[h]) :
                    /\ BackupMetadata_has_table(persisted[g], CaptureDatabases[h], table_name)
                    /\ BackupMetadata_get_table(persisted[g], CaptureDatabases[h], table_name)
                          = BackupMetadata_get_table(backup_meta, CaptureDatabases[h],
                                                     table_name)
    /\ \A db_name \in ProcessedDatabases :
          CapturedTables(db_name) \in {{}, Range(CaptureTables[db_name])}

\* the backup is in the data of the table of db2; the one document uploaded so far
\* holds both tables of db1, the first of them with parts
C24_Witness ==
    /\ cpc = "table_data"
    /\ bpc = "validate"
    /\ db_iter = <<"db2">>
    /\ Len(persisted) = 1
    /\ BackupMetadata_has_table(persisted[1], "db1", "t1")
    /\ BackupMetadata_has_table(persisted[1], "db1", "t2")
    /\ RecordedParts(persisted[1], "db1", "t1") # {}
    /\ ~BackupMetadata_has_table(backup_meta, "db2", "t1")

(***************************************************************************)
(* The tables that exist on the target before a restore.                   *)
(***************************************************************************)
\* the tables of the backup left out of the schema phase of this run: they existed
\* with an equal schema
LeftOut == Range(BackupTables) \ Range(tables)

\* every part of the table is in the journal, as restored or as failed
AllPartsJournalled(t) ==
    \A i \in DOMAIN PartsOf(t) :
        \/ RestoreContext_part_restored(journal, t, PartsOf(t)[i])
        \/ \E f \in journal.failed : f[1] = t /\ f[2] = PartsOf(t)[i]

\* C25: preprocessing submits each table of the backup that does not exist on the
\* target, leaves out and does not drop a table that exists with an equal schema, and
\* drops and then submits a table that exists with another schema; a merge-tree table
\* left out is never submitted in the run, is among the tables of the data phase, and
\* when the run ends without an exception each of its parts is in the journal.
C25_ExistingTablesSkippedDroppedOrSubmitted ==
    /\ [][pc = "restore" /\ pc' = "restore_tables" =>
            \A t \in Range(BackupTables) :
                /\ t \notin ch_tables \cup ch_changed =>
                      t \in Range(tables') /\ t \notin ch_tables' \cup ch_changed'
                /\ t \in ch_tables => t \notin Range(tables') /\ t \in ch_tables'
                /\ t \in ch_changed =>
                      t \in Range(tables') /\ t \notin ch_tables' \cup ch_changed']_vars
    /\ [][pc = "after_restore_tables" /\ run' = run /\ ~args.schema_only =>
            \A t \in LeftOut : IsMergeTreeTable(t) => t \in Range(todo')]_vars
    /\ [](pc # "restore" => Range(first_attempts) \cap LeftOut = {})
    /\ [](pc = "done" /\ exc = NoExc /\ ~args.schema_only =>
            \A t \in LeftOut : IsMergeTreeTable(t) => AllPartsJournalled(t))

\* the first run has ended without an exception: table 1 existed with an equal schema
\* and was not submitted, and its three parts were attached and are in the journal as
\* restored; table 3 was submitted
C25_Witness ==
    /\ run = 1
    /\ pc = "done"
    /\ exc = NoExc
    /\ 1 \in LeftOut
    /\ 3 \in Range(first_attempts)
    /\ \A i \in DOMAIN PartsOf(1) :
          /\ <<1, PartsOf(1)[i]>> \in attach_ok
          /\ RestoreContext_part_restored(journal, 1, PartsOf(1)[i])

(***************************************************************************)
(* The tables of the data phase.                                           *)
(***************************************************************************)
\* the merge-tree tables of the backup that the schema phase did not report failed
DataTables == {t \in Range(BackupTables) : IsMergeTreeTable(t) /\ t \notin failed_tables}

\* the positions of a run inside the data phase
DataPcs ==
    {"restore_cloud_storage_data", "restart_finally", "restore_data", "parts", "wait",
     "chown", "attach", "finally"}

\* C26: when the schema phase has returned, a run that is not schema-only takes for the
\* data phase exactly the merge-tree tables of the backup that are not in the failed
\* set, and works in the data phase on no other table; a schema-only run ends there:
\* it never enters the data phase and restarts no disk, copies, downloads and attaches
\* nothing.
C26_DataRestoredIffEligible ==
    /\ [][pc = "after_restore_tables" /\ run' = run =>
            IF args.schema_only
            THEN pc' = "done" /\ todo' = <<>>
            ELSE /\ Range(todo') = DataTables
                 /\ Len(todo') = Cardinality(DataTables)
                 /\ pc' \in DataPcs]_vars
    /\ [](pc \in DataPcs => ~args.schema_only /\ Range(todo) \subseteq DataTables)
    /\ [][(pc \in DataPcs /\ run' = run /\ journal'.tables # journal.tables) =>
            (journal'.tables = (journal.tables \cup {Head(todo)}))]_vars
    /\ [](args.schema_only =>
            /\ pc \notin DataPcs
            /\ ~data_acted
            /\ units = 0
            /\ transfers = {}
            /\ attach_log = <<>>
            /\ restarted = <<>>
            /\ \A i \in DOMAIN phases : phases[i] \in {"cleanup", "schema"})

\* the data phase of a run that is not schema-only is at its last table: table 1 was
\* reported failed by the schema phase and is not restored, tables 2 and 3 were
\* created, and only table 3 has its data restored
C26_Witness ==
    /\ pc = "attach"
    /\ ~args.schema_only
    /\ failed_tables = {1}
    /\ 2 \in ch_tables
    /\ todo = <<3>>
    /\ journal.tables = {3}

(***************************************************************************)
(* Creation of dependent tables.                                           *)
(***************************************************************************)
\* the table each dependent table of the catalog is built on: the distributed table
\* 2 on the merge-tree table 1, the view 4 on the distributed table 2
BaseOf == [t \in {2, 4} |-> IF t = 2 THEN 1 ELSE 2]

\* the tables of the run in the classes submitted ahead of the class of t
EarlierClasses(t) ==
    {u \in Range(tables) :
        \/ IsDistributedTable(t) /\ (IsMergeTreeTable(u) \/ IsOtherTable(u))
        \/ IsViewTable(t) /\ ~IsViewTable(u)}

\* C27 as stated: a dependent table of the run exists only if its base table, when it
\* is among the tables of the run, exists too.
C27_DependentNeverCreatedBeforeBase ==
    \A t \in DOMAIN BaseOf :
        (t \in ch_tables /\ BaseOf[t] \in Range(tables)) => BaseOf[t] \in ch_tables

\* C27: when a distributed table is created, every merge-tree and other table of the
\* run has been submitted at least once, and when a view is created so has every
\* distributed table; a table of an earlier class that does not exist then is one
\* whose creation failed: it is pending behind, in the queue of the loop.
C27_DependentCreatedAfterBaseSubmitted ==
    /\ [][\A t \in ch_tables' \ ch_tables :
            EarlierClasses(t) \subseteq Range(first_attempts)]_vars
    /\ [](\A t \in ch_tables \cap Range(tables) :
            \A u \in EarlierClasses(t) : u \in ch_tables \/ u \in Range(unprocessed))

\* the merge-tree table 1 failed once and was requeued, and the distributed table 2
\* over it was created while table 1 is still pending
C27_Witness ==
    /\ pc = "restore_table_objects"
    /\ 1 \in Range(first_attempts)
    /\ 1 \notin ch_tables
    /\ 1 \in Range(unprocessed)
    /\ 2 \in ch_tables

(***************************************************************************)
(* The restored set and the failed map of the journal.                     *)
(***************************************************************************)
\* no part of the record is both restored and failed
RestoredFailedDisjoint(ctx) ==
    \A f \in ctx.failed : ~RestoreContext_part_restored(ctx, f[1], f[2])

\* _restore_data, lines 319-327: a run that starts from an empty journal attaches each
\* part once and records one outcome for it. A part recorded as failed is attached
\* again only by a later run, which read the journal from its file: what add_part
\* leaves of the failed entry then is decided by RestoreContext.
FirstRunRestoredFailedDisjoint ==
    run = 1 => RestoredFailedDisjoint(journal) /\ RestoredFailedDisjoint(journal_file)

\* a later run attached a part that an earlier run recorded as failed
RetriedFailedPart ==
    /\ run > 1
    /\ \E f \in journal.failed : <<f[1], f[2]>> \in attach_ok \cap journal.restored

(***************************************************************************)
(* compare_schema (util.py).  A schema text is the sequence of its lexical *)
(* units: a word (a maximal run of letters, digits and underscores) or one *)
(* other character.  No pattern of _normalize matches a part of a word.    *)
(***************************************************************************)
\* the character ` as a unit of a text
Backquote == "<backquote>"

\* the characters \s matches
Spaces == {" ", "\n"}

\* the words with capital letters, and what str.lower makes of them
Capitals ==
    [w \in {"CREATE", "ATTACH", "TABLE", "UUID", "ENGINE", "Distributed", "Int32", "String"} |->
        CASE w = "CREATE" -> "create"
          [] w = "ATTACH" -> "attach"
          [] w = "TABLE" -> "table"
          [] w = "UUID" -> "uuid"
          [] w = "ENGINE" -> "engine"
          [] w = "Distributed" -> "distributed"
          [] w = "Int32" -> "int32"
          [] w = "String" -> "string"]

\* str.lower
str_lower(text) ==
    [i \in DOMAIN text |-> IF text[i] \in DOMAIN Capitals THEN Capitals[text[i]] ELSE text[i]]

\* \w+ matches this unit
IsWord(c) == c \notin Spaces \cup {"(", ")", "'", Backquote, ".", ",", "="}

\* the text goes on with the literal at position i
LooksAt(text, i, literal) ==
    /\ i + Len(literal) - 1 <= Len(text)
    /\ SubSeq(text, i, i + Len(literal) - 1) = literal

\* [^...]+ : the last position of the longest run from i of units outside stop,
\* i - 1 when there is none
RECURSIVE RunExcept(_, _, _)
RunExcept(text, i, stop) ==
    IF i > Len(text) \/ text[i] \in stop THEN i - 1 ELSE RunExcept(text, i + 1, stop)

\* \s+ and " +": the last position of the longest run from i of units of chars
RECURSIVE RunOf(_, _, _)
RunOf(text, i, chars) ==
    IF i > Len(text) \/ text[i] \notin chars THEN i - 1 ELSE RunOf(text, i + 1, chars)

NoMatch == [ok |-> FALSE]

\* ('?)(\w+)\N at position i: a word, bare or between two quotes
QuotedWord(text, i) ==
    IF LooksAt(text, i, <<"'">>)
    THEN IF i + 2 <= Len(text) /\ IsWord(text[i + 1]) /\ text[i + 2] = "'"
         THEN [ok |-> TRUE, word |-> text[i + 1], next |-> i + 3]
         ELSE NoMatch
    ELSE IF i <= Len(text) /\ IsWord(text[i])
         THEN [ok |-> TRUE, word |-> text[i], next |-> i + 1]
         ELSE NoMatch

\* line 217: the literal the first pattern begins with; it is matched before
\* lower() and letter for letter
DistributedOpening == <<"ENGINE", " ", "=", " ", "Distributed", "(", "'">>

\* line 217: a match of
\* ENGINE = Distributed\('([^']+)', ('?)(\w+)\2, ('?)(\w+)\4(, .*)?\) at position i
MatchDistributed(text, i) ==
    LET b1 == i + Len(DistributedOpening)
        e1 == RunExcept(text, b1, {"'"})
        a2 == QuotedWord(text, e1 + 4)
        a3 == QuotedWord(text, a2.next + 2)
        rest == a3.next
        eol == RunExcept(text, rest, {"\n"})
        closing == {k \in (rest + 2)..eol : text[k] = ")"}
        last == CHOOSE k \in closing : \A j \in closing : j <= k
    IN  IF \/ ~LooksAt(text, i, DistributedOpening)
           \/ e1 < b1
           \/ ~LooksAt(text, e1 + 1, <<"'", ",", " ">>)
        THEN NoMatch
        ELSE IF ~a2.ok \/ ~LooksAt(text, a2.next, <<",", " ">>) THEN NoMatch
        ELSE IF ~a3.ok THEN NoMatch
        ELSE IF LooksAt(text, rest, <<",", " ">>) /\ closing # {}
             THEN [ok |-> TRUE, g1 |-> SubSeq(text, b1, e1), g3 |-> a2.word, g5 |-> a3.word,
                   g6 |-> SubSeq(text, rest, last - 1), next |-> last + 1]
        ELSE IF LooksAt(text, rest, <<")">>)
             THEN [ok |-> TRUE, g1 |-> SubSeq(text, b1, e1), g3 |-> a2.word, g5 |-> a3.word,
                   g6 |-> <<>>, next |-> rest + 1]
        ELSE NoMatch

\* line 217-218: re.sub of the first pattern by ENGINE = Distributed('\1', '\3', '\5'\6)
RECURSIVE SubDistributed(_, _)
SubDistributed(text, i) ==
    IF i > Len(text) THEN <<>>
    ELSE LET m == MatchDistributed(text, i) IN
         IF m.ok
         THEN DistributedOpening \o m.g1
                \o <<"'", ",", " ", "'", m.g3, "'", ",", " ", "'", m.g5, "'">> \o m.g6 \o <<")">>
                \o SubDistributed(text, m.next)
         ELSE <<text[i]>> \o SubDistributed(text, i + 1)

\* line 219: re.sub of ^attach table `?([^`\.]+)`?\.\`?([^`\.]+)\` (uuid '[^']+')?
\* by create table \1.\2
SubAttach(text) ==
    LET b1 == IF LooksAt(text, 5, <<Backquote>>) THEN 6 ELSE 5
        e1 == RunExcept(text, b1, {Backquote, "."})
        dot == IF LooksAt(text, e1 + 1, <<Backquote>>) THEN e1 + 2 ELSE e1 + 1
        b2 == IF LooksAt(text, dot + 1, <<Backquote>>) THEN dot + 2 ELSE dot + 1
        e2 == RunExcept(text, b2, {Backquote, "."})
        u == e2 + 3
        ue == RunExcept(text, u + 3, {"'"})
        uuid == LooksAt(text, u, <<"uuid", " ", "'">>) /\ ue >= u + 3 /\ LooksAt(text, ue + 1, <<"'">>)
        next == IF uuid THEN ue + 2 ELSE u
    IN  IF /\ LooksAt(text, 1, <<"attach", " ", "table", " ">>)
           /\ e1 >= b1
           /\ LooksAt(text, dot, <<".">>)
           /\ e2 >= b2
           /\ LooksAt(text, e2 + 1, <<Backquote, " ">>)
        THEN <<"create", " ", "table", " ">> \o SubSeq(text, b1, e1) \o <<".">>
                \o SubSeq(text, b2, e2) \o SubSeq(text, next, Len(text))
        ELSE text

\* line 220: re.sub of \s+ by one space
RECURSIVE SubSpaces(_, _)
SubSpaces(text, i) ==
    IF i > Len(text) THEN <<>>
    ELSE IF text[i] \in Spaces
         THEN <<" ">> \o SubSpaces(text, RunOf(text, i, Spaces) + 1)
         ELSE <<text[i]>> \o SubSpaces(text, i + 1)

\* line 221: re.sub of "\( +" by "("
RECURSIVE SubOpening(_, _)
SubOpening(text, i) ==
    IF i > Len(text) THEN <<>>
    ELSE IF text[i] = "(" /\ LooksAt(text, i + 1, <<" ">>)
         THEN <<"(">> \o SubOpening(text, RunOf(text, i + 1, {" "}) + 1)
         ELSE <<text[i]>> \o SubOpening(text, i + 1)

\* line 222: re.sub of " +\)" by ")"
RECURSIVE SubClosing(_, _)
SubClosing(text, i) ==
    IF i > Len(text) THEN <<>>
    ELSE IF text[i] = " " /\ LooksAt(text, RunOf(text, i, {" "}) + 1, <<")">>)
         THEN <<")">> \o SubClosing(text, RunOf(text, i, {" "}) + 2)
         ELSE <<text[i]>> \o SubClosing(text, i + 1)

\* line 223: re.sub of " $" by nothing
SubTrailing(text) ==
    IF text # <<>> /\ text[Len(text)] = " " THEN SubSeq(text, 1, Len(text) - 1) ELSE text

\* lines 216-224
normalize(schema) ==
    SubTrailing(SubClosing(SubOpening(SubSpaces(
        SubAttach(str_lower(SubDistributed(schema, 1))), 1), 1), 1))

\* line 226
compare_schema(a, b) == normalize(a) = normalize(b)

(***************************************************************************)
(* The schemas compared: one table db.t with one column over a             *)
(* Distributed engine, in the spellings the two sources of a schema give.  *)
(***************************************************************************)
\* what a schema declares (column_type, remote_table, sharding_key) and how the
\* text spells it: framed as CREATE TABLE db.t or as ATTACH TABLE with back-quoted
\* names and a UUID, database and table arguments of the engine quoted or bare,
\* the engine clause in small letters or not, one or two spaces after the first
\* argument, the clauses on one line or on lines of their own
SchemaDeclarations ==
    [framing : {"CREATE", "ATTACH"},
     column_type : {"Int32", "String"},
     remote_table : {"t", "t2"},
     sharding_key : {None, "a"},
     quoted : BOOLEAN,
     lowered : BOOLEAN,
     gap : {<<" ">>, <<" ", " ">>},
     break : Spaces]

\* the text of the statement up to the column list
FramingText(d) ==
    IF d.framing = "CREATE"
    THEN <<"CREATE", " ", "TABLE", " ", "db", ".", "t">>
    ELSE <<"ATTACH", " ", "TABLE", " ", Backquote, "db", Backquote, ".", Backquote, "t", Backquote,
           " ", "UUID", " ", "'", "u1", "'">>

\* the engine clause
EngineText(d) ==
    LET q == IF d.quoted THEN <<"'">> ELSE <<>>
        key == IF d.sharding_key = None THEN <<>> ELSE <<",", " ", d.sharding_key>>
        clause == <<"ENGINE", " ", "=", " ", "Distributed", "(", "'", "c", "'", ",">> \o d.gap
                    \o q \o <<"db">> \o q \o <<",", " ">> \o q \o <<d.remote_table>> \o q
                    \o key \o <<")">>
    IN  IF d.lowered THEN str_lower(clause) ELSE clause

\* the text of a schema
SchemaText(d) ==
    FramingText(d) \o <<d.break, "(", "a", " ", d.column_type, ")", d.break>> \o EngineText(d)

CompareInit ==
    /\ MetaIdle
    /\ SchemaIdle
    /\ DataIdle
    /\ BackupIdle
    /\ CaptureIdle
    /\ declared_a \in SchemaDeclarations
    /\ declared_b \in SchemaDeclarations
    /\ schema_a = SchemaText(declared_a)
    /\ schema_b = SchemaText(declared_b)
    /\ compare_result = None

\* compare_schema, lines 206-226
CompareSchema ==
    /\ compare_result = None
    /\ compare_result' = IF compare_schema(schema_a, schema_b) THEN "True" ELSE "False"
    /\ UNCHANGED <<declared_a, declared_b, schema_a, schema_b>>
    /\ UNCHANGED <<metaVars, schemaVars, dataVars, backupVars, captureVars>>

CompareNext == CompareSchema

SpecCompare == CompareInit /\ [][CompareNext]_vars

\* what the schema declares, whatever the spelling
Declares(d) == <<d.column_type, d.remote_table, d.sharding_key>>

\* the two texts have the same body and differ in the framing
SameBodyOtherFraming(a, b) ==
    a.framing # b.framing /\ [a EXCEPT !.framing = b.framing] = b

\* the first pattern of _normalize matches the engine clause as it is spelled
PatternApplies(d) == ~d.lowered /\ d.gap = <<" ">>

\* the arguments of the engine are quoted once the first pattern has been applied
QuotedAfterPattern(d) == d.quoted \/ PatternApplies(d)

\* C29: compare_schema returns true for identical bodies framed as CREATE TABLE db.t
\* and as ATTACH TABLE with back-quoted names and a UUID, true for two
\* Distributed declarations that differ only in quoted or bare arguments, in letter
\* case or in whitespace, and false when the bodies differ otherwise.
C29_CosmeticDifferencesIgnored ==
    compare_result # None =>
        /\ SameBodyOtherFraming(declared_a, declared_b) => compare_result = "True"
        /\ Declares(declared_a) = Declares(declared_b) => compare_result = "True"
        /\ Declares(declared_a) # Declares(declared_b) => compare_result = "False"

\* two texts of one declaration, both with bare arguments, that differ in one space
\* of the engine clause and are reported different
C29_SpaceMakesDifferent ==
    /\ compare_result = "False"
    /\ declared_a.gap # declared_b.gap
    /\ [declared_a EXCEPT !.gap = declared_b.gap] = declared_b
    /\ ~declared_a.quoted
    /\ ~declared_a.lowered

\* what compare_schema returns on these texts: true exactly when the two declare the
\* same and their engine arguments are quoted alike after the first pattern, which
\* rewrites bare arguments only in a clause spelled ENGINE = Distributed('...', with
\* these capitals and single spaces
CompareSchemaResult ==
    compare_result # None =>
        (compare_result = "True" <=>
            /\ Declares(declared_a) = Declares(declared_b)
            /\ QuotedAfterPattern(declared_a) = QuotedAfterPattern(declared_b))

(***************************************************************************)
(* Termination of the submission loop.                                     *)
(***************************************************************************)
\* C30: whatever restore_table answers at each attempt, the submission loop ends:
\* an iteration either takes one table off the pending ones and empties the error
\* list, or leaves as many pending and adds one error, and the loop goes on only
\* while the errors are at most the pending tables.
C30_SubmissionLoopTerminates ==
    /\ <>LoopReturned
    /\ [](pc = "restore_table_objects" => Len(errors) <= Len(unprocessed))
    /\ [][pc = "restore_table_objects" =>
            \/ Len(unprocessed') = Len(unprocessed) - 1 /\ errors' = <<>>
            \/ Len(unprocessed') = Len(unprocessed) /\ Len(errors') = Len(errors) + 1]_vars

\* the loop has returned: two tables were created, the second after a failure of
\* the table that then failed twice more and is the only one left pending
C30_Witness ==
    /\ LoopReturned
    /\ Cardinality(ch_tables) = 2
    /\ Len(unprocessed) = 1
    /\ errors = <<unprocessed[1], unprocessed[1]>>
    /\ first_attempts[1] = unprocessed[1]

(***************************************************************************)
(* What the submission loop reports when it gives up.                      *)
(***************************************************************************)
\* C31: when the submission loop ends with errors, the tables of the error list,
\* which are the tables reported failed (returned under keep_going, named in the
\* error raised otherwise), are exactly the tables still pending: each pending
\* table failed since the last success, and none reported was created.
C31_ReportedFailedArePending ==
    /\ (pc = "restore_table_objects_end" /\ errors # <<>>) =>
          /\ Range(errors) = Range(unprocessed)
          /\ Range(errors) \cap ch_tables = {}
    /\ (LoopReturned /\ errors # <<>>) =>
          /\ ReportedFailed = Range(unprocessed)
          /\ ReportedFailed \cap ch_tables = {}

\* the loop gave up after one table was created: the error raised names the two
\* tables left pending
C31_Witness ==
    /\ LoopReturned
    /\ exc.type = "ClickhouseBackupError"
    /\ Cardinality(exc.tables) = 2
    /\ exc.tables = Range(unprocessed)
    /\ Cardinality(ch_tables) = 1

(***************************************************************************)
(* Each table is created once or reported failed.                          *)
(***************************************************************************)
\* C32: in the submission loop no table is pending twice or pending after it was
\* created, so an attempt is made only for a table not yet created and creates at
\* most that table; when the loop has ended each input table is either created or
\* reported failed, never both and never neither.
C32_CreatedOnceOrReportedFailed ==
    /\ [](/\ Range(unprocessed) \cap ch_tables = {}
          /\ Cardinality(Range(unprocessed)) = Len(unprocessed))
    /\ [][pc = "restore_table_objects" =>
            /\ Head(unprocessed) \notin ch_tables
            /\ ch_tables \subseteq ch_tables'
            /\ ch_tables' \subseteq ch_tables \cup {Head(unprocessed)}
            /\ Head(unprocessed) \in ch_tables' => Head(unprocessed) \notin Range(unprocessed')]_vars
    /\ [](LoopReturned =>
            /\ ch_tables \cap ReportedFailed = {}
            /\ ch_tables \cup ReportedFailed = Range(tables))

\* under keep_going the loop returned one failed table of three: the two attempted
\* before it were created and it is the only one left pending
C32_Witness ==
    /\ LoopReturned
    /\ args.keep_going
    /\ Len(tables) = 3
    /\ Cardinality(failed_tables) = 1
    /\ Cardinality(ch_tables) = 2
    /\ first_attempts[1] \in ch_tables
    /\ first_attempts[2] \in ch_tables
    /\ unprocessed = <<first_attempts[3]>>

(***************************************************************************)
(* Rejected mutations of the metadata.                                     *)
(***************************************************************************)
\* a table with one part, as a caller may hand it to add_table
OnePartTables ==
    {PopulatedTable(TableMetadata(db, t, "MergeTree", None), f, DOMAIN f) :
        db \in DbNames, t \in TableNames, f \in [{1} -> PartDescs]}

\* add_database, add_table and add_part called on self: a call that names something
\* already there, or a place that is not there, raises, and a call that raises
\* returns self as it was
RejectedAddsChangeNothing(self) ==
    /\ \A db \in DbNames :
          LET r == BackupMetadata_add_database(self, db) IN
          /\ db \in BackupMetadata_get_databases(self) => r.raised = "AssertionError"
          /\ r.raised # None => r.self = self
    /\ \A table \in OnePartTables :
          LET r == BackupMetadata_add_table(self, table) IN
          /\ table.database \notin BackupMetadata_get_databases(self) => r.raised = "KeyError"
          /\ BackupMetadata_has_table(self, table.database, table.name) =>
                r.raised = "AssertionError"
          /\ r.raised # None => r.self = self
    /\ \A db \in DbNames, t \in TableNames, n \in PartNames, d \in PartDescs :
          LET part == NewPart(db, t, n, d[1], d[2])
              r == BackupMetadata_add_part(self, part)
          IN  /\ ~BackupMetadata_has_table(self, db, t) => r.raised = "KeyError"
              /\ (BackupMetadata_has_table(self, db, t)
                    /\ n \in DOMAIN self._databases[db].tables[t].parts) =>
                    r.raised = "AssertionError"
              /\ r.raised # None => r.self = self

\* the step took parts out of one table, changed nothing else but the counters, and
\* left size and real_size the sums over the parts that remain
PartsRemovedOnly ==
    \E db \in DOMAIN backup_meta._databases :
        \E t \in DOMAIN backup_meta._databases[db].tables :
            LET before == backup_meta._databases[db].tables[t].parts
                after == backup_meta'._databases[db].tables[t].parts
            IN  /\ DOMAIN after \subseteq DOMAIN before
                /\ \A n \in DOMAIN after : after[n] = before[n]
                /\ backup_meta' = [backup_meta EXCEPT
                                      !._databases[db].tables[t].parts = after,
                                      !.size = backup_meta'.size,
                                      !.real_size = backup_meta'.real_size]
                /\ backup_meta'.size = SumSizes(BackupMetadata_get_parts(backup_meta'))
                /\ backup_meta'.real_size = SumRealSizes(BackupMetadata_get_parts(backup_meta'))

\* C33: a metadata call that is rejected leaves the metadata unchanged: add_database
\* with an existing name, add_table with an existing table or an unknown database and
\* add_part with an existing part or an unknown table raise and change nothing; the
\* only call that raises after a change is remove_parts, which has then removed the
\* parts before the missing one and left size and real_size the sums over the parts
\* that remain.
C33_RejectedMutationKeepsMetadata ==
    /\ []RejectedAddsChangeNothing(backup_meta)
    /\ [][(raised' # None /\ backup_meta' # backup_meta) => PartsRemovedOnly]_vars

\* remove_parts was called with the same part twice on a table of two parts: it
\* raised at the second, one part is left and every database holds its table
C33_Witness ==
    /\ raised = "KeyError"
    /\ \A db \in DbNames : BackupMetadata_has_table(backup_meta, db, "t1")
    /\ Cardinality(DOMAIN backup_meta._databases["db1"].tables["t1"].parts) = 1
    /\ backup_meta.size > 0

(***************************************************************************)
(* The order of the steps of a table's backup.                             *)
(***************************************************************************)
\* where the calls `call` stand among the calls made for the table under way
Positions(call) == {i \in DOMAIN bk_calls : bk_calls[i][1] = call}

\* the calls made for the frozen parts one by one
PerPartPositions ==
    Positions("deduplicate_part") \cup Positions("upload_data_part")
        \cup Positions("remove_freezed_part") \cup Positions("add_part")

\* every call at a position of first was made before every call at one of second
AllBefore(first, second) == \A i \in first, j \in second : i < j

\* C34: for each table the calls come in the order freeze, the parts one by one
\* (looked up and either found or enqueued for upload), one wait for the transfers,
\* verification, release of the freeze; the frozen copy of a part enqueued for
\* upload is not removed on its own, no part is verified and the freeze is not
\* released unless wait was called before, and the table is registered in the
\* metadata only by the step that follows the release.
C34_JoinBeforeVerifyReleaseRegister ==
    /\ [](/\ bk_calls # <<>> => Positions("freeze_table") = {1}
          /\ Cardinality(Positions("wait")) <= 1
          /\ AllBefore(PerPartPositions, Positions("wait"))
          /\ AllBefore(Positions("wait"), Positions("check_data_part"))
          /\ AllBefore(Positions("check_data_part"), Positions("remove_freezed_data"))
          /\ AllBefore(Positions("wait"), Positions("remove_freezed_data"))
          /\ Positions("check_data_part") \cup Positions("remove_freezed_data") # {} =>
                Positions("wait") # {}
          /\ \A i \in Positions("upload_data_part") :
                CallsOf("remove_freezed_part", bk_calls[i][2]) = 0
          /\ cpc = "table_data" =>
                ~BackupMetadata_has_table(backup_meta, Head(db_iter), Head(tables_iter)))
    /\ [][(cpc = "table_data" /\ cpc' = "tables") =>
            /\ bk_calls[Len(bk_calls)] = <<"remove_freezed_data", 0>>
            /\ bk_calls' = bk_calls
            /\ BackupMetadata_has_table(backup_meta', Head(db_iter), Head(tables_iter))]_vars

\* a table was registered after one of its parts was found in an earlier backup and
\* another was uploaded, waited for and verified, and the freeze was released
C34_Witness ==
    /\ cpc = "tables"
    /\ capture_log # <<>>
    /\ capture_log[Len(capture_log)][1] = "add_table"
    /\ Positions("remove_freezed_part") # {}
    /\ Positions("upload_data_part") # {}
    /\ Positions("check_data_part") # {}
    /\ bk_calls[Len(bk_calls)] = <<"remove_freezed_data", 0>>


====
